---- MODULE Spec2Model ----
(***************************************************************************)
(* Model of the order-book processor: the SPSC ring buffer (queue.hpp),    *)
(* the ingress callback and the consumer loop that share it (main.cpp),    *)
(* and the per-symbol order book (orderbook.hpp).                          *)
(*                                                                         *)
(* Specifications:                                                         *)
(*   Spec          producer (ingress callback) and consumer (print_consumer*)
(*                 loop) running concurrently on one ring, every index     *)
(*                 load, slot access and index store a separate step.      *)
(*   SpecCtor      the ring's constructor, one loop iteration per step.    *)
(*   SpecRoundTrip a single caller that pushes n values and then pops n.   *)
(*   SpecBook      add_order / modify_order / cancel_order on one book.    *)
(*   SpecPipeline  listener, ring, consumer, book and publisher together,  *)
(*                 with the signal handler; SpecPipelineFair adds the      *)
(*                 scheduling of both threads.                             *)
(*   SpecRelaxed   the ring under the memory orders of its index accesses. *)
(*   SpecLatency   the three time stamps of one event and its latencies.   *)
(*   SpecLevel     add_order / modify_order / remove_order on one level.   *)
(*   SpecSymbols   the consumer's dispatch over the books of two symbols.  *)
(*   SpecConsumerFair  SpecPipeline with the scheduling of the consumer.   *)
(***************************************************************************)
EXTENDS Integers, Sequences, FiniteSets, TLC

VARIABLES
    \* SPSCRingBuffer: constructor argument and position, fields
    requested, ctor_pc, actual_capacity,
    capacity_, mask_, buffer_, head_, tail_,
    \* producer thread: position, locals of full() and push(), argument, result
    ppc, pFullHead, pFullTail, pHead, pItem, pRet, pPops,
    \* ingress callback: static counters, number of events handed to it
    events_pushed, events_dropped, nextEvent,
    \* consumer thread: position, locals of empty() and pop(), caller's output item, result
    cpc, cEmptyHead, cEmptyTail, cTail, item, cRet,
    \* histories: every try_push in linearisation order, every popped value
    pushLog, poppedSeq,
    \* single-caller round trip
    rtPhase, rtVals, rtIdx, rtOut, rtOk, rtRound,
    \* OrderBook fields, result of the last call
    orders_by_id, bid_levels, ask_levels, ret,
    \* histories of the book: the live order ids in the order their adds
    \* succeeded, and the last dispatched call
    added_order, trail,
    \* the process: shutdown flag; UDPListener::listen position, datagrams
    \* received so far, outcome of the last receive; print_consumer position,
    \* its local event, the symbols that have a book in order_books, the
    \* messages handed to the publisher for the event being handled, its
    \* event counter; what happened since the flag was set
    shutdown_flag, lpc, datagrams, lrecv,
    kpc, event, order_books, published, total_events, after_shutdown,
    \* the element array as it was before the latest write to each slot
    overwritten,
    \* a PriceLevel operated on directly
    price_level,
    \* order_books: the books of the symbols other than the one `book`
    \* refers to, and the symbol `book` refers to (its OrderBook is in
    \* orders_by_id, bid_levels, ask_levels)
    books, book_symbol,
    \* the monotonic clock and the stamps and latencies of one event
    stamps

ctorVars == <<requested, ctor_pc, actual_capacity>>
ringVars == <<capacity_, mask_, buffer_, head_, tail_>>
prodVars == <<ppc, pFullHead, pFullTail, pHead, pItem, pRet, pPops>>
cbVars   == <<events_pushed, events_dropped, nextEvent>>
consVars == <<cpc, cEmptyHead, cEmptyTail, cTail, item, cRet>>
histVars == <<pushLog, poppedSeq>>
rtVars   == <<rtPhase, rtVals, rtIdx, rtOut, rtOk, rtRound>>
auxVars  == <<price_level, books, book_symbol, stamps>>
pipeVars == <<shutdown_flag, lpc, datagrams, lrecv,
              kpc, event, order_books, published, total_events, after_shutdown,
              overwritten, auxVars>>
bookVars == <<orders_by_id, bid_levels, ask_levels, ret, added_order, trail, pipeVars>>

vars == <<ctorVars, ringVars, prodVars, cbVars, consVars, histVars, rtVars, bookVars>>

----------------------------------------------------------------------------
(* Bounds *)

\* width of size_t in the model: the constructor's shift wraps at 2^SizeBits
SizeBits == 5
\* largest capacity requested of a ring that is then run
MaxRequested == 3
\* events handed to the ingress callback in one run
MaxEvents == 6
\* distinct payload values of the round trip
MaxValue == 2
\* round trips in one run
MaxRounds == 2
\* width of uint32_t in the model: sizes wrap at 2^U32Bits
U32Bits == 3
\* order ids 1 .. MaxOrders
MaxOrders == 2
\* prices 0 .. MaxPrice (0 is the price of an event that carries none)
MaxPrice == 2
\* entries resting in the two ladders together
MaxEntries == 2

\* events dispatched in a run over the books of two symbols
MaxSymbolEvents == 4

SizeMod == 2 ^ SizeBits

\* T(): the default-constructed element every slot starts with
DefaultItem == 0

----------------------------------------------------------------------------
(* Arithmetic of the ring *)

\* a & b on naturals
RECURSIVE BitAnd(_, _)
BitAnd(a, b) ==
    IF a = 0 \/ b = 0 THEN 0
    ELSE (a % 2) * (b % 2) + 2 * BitAnd(a \div 2, b \div 2)

\* actual_capacity <<= 1 on a size_t
ShiftLeft1(x) == (2 * x) % SizeMod

\* mutant: the loop also doubles a capacity that already equals the request
CtorLoopCond_OrEqual(actual, capacity) == actual <= capacity

\* while (actual_capacity < capacity)
CtorLoopCond(actual, capacity) == actual < capacity

\* the whole loop, for a request the loop terminates on
RECURSIVE NextPow2(_, _)
NextPow2(actual, capacity) ==
    IF CtorLoopCond(actual, capacity)
    THEN NextPow2(ShiftLeft1(actual), capacity)
    ELSE actual

\* mask_ = capacity_ - 1
MaskOf(capacity) == capacity - 1

\* the buffer after the placement-new loop
FreshBuffer(capacity) == [i \in 0 .. capacity - 1 |-> DefaultItem]

\* mutant: the producer index advances without the mask
NextHead_NoMask(head, mask) == head + 1

\* push(): (head + 1) & mask_
NextHead(head, mask) == BitAnd(head + 1, mask)

\* mutant: the consumer index advances by two
NextTail_Skip(tail, mask) == BitAnd(tail + 2, mask)

\* pop(): (tail + 1) & mask_
NextTail(tail, mask) == BitAnd(tail + 1, mask)

\* mutant: push never finds the ring full
full_Never(head, tail, mask) == FALSE

\* mutant: the ring counts as full when head == tail
full_WhenEmpty(head, tail, mask) == head = tail

\* full(): ((head + 1) & mask_) == tail
full(head, tail, mask) == BitAnd(head + 1, mask) = tail

\* mutant: a head that has wrapped behind tail counts as empty
empty_Ordered(head, tail) == head <= tail

\* empty(): head == tail
empty(head, tail) == head = tail

\* size()
size(head, tail, capacity) ==
    IF head >= tail THEN head - tail ELSE (capacity - tail) + head

\* buffer_[head] = item
WriteSlot(buffer, head, it) == [buffer EXCEPT ![head] = it]

\* mutant: pop copies the slot after tail
ReadSlot_Next(buffer, tail) == buffer[(tail + 1) % Cardinality(DOMAIN buffer)]

\* item = buffer_[tail]
ReadSlot(buffer, tail) == buffer[tail]

----------------------------------------------------------------------------
(* SPSCRingBuffer::push, one step per index load, slot access, index store *)

\* the record kept of one try_push: its argument, its result and the number
\* of pops that had completed when it loaded the consumer index
LogEntry(id, ok, pops) == [id |-> id, ok |-> ok, pops |-> pops]

\* full(): size_t head = head_.load(relaxed)
PushFullLoadHead ==
    /\ ppc = "full_head"
    /\ pFullHead' = head_
    /\ ppc' = "full_tail"
    /\ UNCHANGED <<pFullTail, pHead, pItem, pRet, pPops>>
    /\ UNCHANGED <<ctorVars, ringVars, cbVars, consVars, histVars, rtVars, bookVars>>

\* full(): size_t tail = tail_.load(relaxed); return ((head + 1) & mask_) == tail;
\* push(): if (full()) return false;
PushFullLoadTail ==
    /\ ppc = "full_tail"
    /\ IF full(pFullHead, tail_, mask_)
       THEN /\ pRet' = FALSE
            /\ ppc' = "ret"
            /\ pushLog' = Append(pushLog, LogEntry(pItem, FALSE, Len(poppedSeq)))
            /\ pPops' = 0
       ELSE /\ pRet' = pRet
            /\ ppc' = "load_head"
            /\ pushLog' = pushLog
            /\ pPops' = Len(poppedSeq)
    /\ pFullTail' = tail_
    /\ UNCHANGED <<pFullHead, pHead, pItem, poppedSeq>>
    /\ UNCHANGED <<ctorVars, ringVars, cbVars, consVars, rtVars, bookVars>>

\* push(): size_t head = head_.load(relaxed)
PushLoadHead ==
    /\ ppc = "load_head"
    /\ pHead' = head_
    /\ ppc' = "write_slot"
    /\ UNCHANGED <<pFullHead, pFullTail, pItem, pRet, pPops>>
    /\ UNCHANGED <<ctorVars, ringVars, cbVars, consVars, histVars, rtVars, bookVars>>

\* push(): buffer_[head] = item
PushWriteSlot ==
    /\ ppc = "write_slot"
    /\ buffer_' = WriteSlot(buffer_, pHead, pItem)
    /\ ppc' = "store_head"
    /\ UNCHANGED <<pFullHead, pFullTail, pHead, pItem, pRet, pPops>>
    /\ UNCHANGED <<capacity_, mask_, head_, tail_>>
    /\ UNCHANGED <<ctorVars, cbVars, consVars, histVars, rtVars, bookVars>>

\* push(): head_.store((head + 1) & mask_, release); return true;
PushStoreHead ==
    /\ ppc = "store_head"
    /\ head_' = NextHead(pHead, mask_)
    /\ pRet' = TRUE
    /\ ppc' = "ret"
    /\ pushLog' = Append(pushLog, LogEntry(pItem, TRUE, pPops))
    /\ pPops' = 0
    /\ UNCHANGED <<pFullHead, pFullTail, pHead, pItem, poppedSeq>>
    /\ UNCHANGED <<capacity_, mask_, buffer_, tail_>>
    /\ UNCHANGED <<ctorVars, cbVars, consVars, rtVars, bookVars>>

PushStep ==
    \/ PushFullLoadHead
    \/ PushFullLoadTail
    \/ PushLoadHead
    \/ PushWriteSlot
    \/ PushStoreHead

----------------------------------------------------------------------------
(* SPSCRingBuffer::pop, one step per index load, slot access, index store *)

\* empty(): head_.load(relaxed)
PopEmptyLoadHead ==
    /\ cpc = "empty_head"
    /\ cEmptyHead' = head_
    /\ cpc' = "empty_tail"
    /\ UNCHANGED <<cEmptyTail, cTail, item, cRet>>
    /\ UNCHANGED <<ctorVars, ringVars, prodVars, cbVars, histVars, rtVars, bookVars>>

\* empty(): ... == tail_.load(relaxed);  pop(): if (empty()) return false;
PopEmptyLoadTail ==
    /\ cpc = "empty_tail"
    /\ IF empty(cEmptyHead, tail_)
       THEN /\ cRet' = FALSE
            /\ cpc' = "ret"
       ELSE /\ cRet' = cRet
            /\ cpc' = "load_tail"
    /\ cEmptyTail' = tail_
    /\ UNCHANGED <<cEmptyHead, cTail, item>>
    /\ UNCHANGED <<ctorVars, ringVars, prodVars, cbVars, histVars, rtVars, bookVars>>

\* pop(): size_t tail = tail_.load(relaxed)
PopLoadTail ==
    /\ cpc = "load_tail"
    /\ cTail' = tail_
    /\ cpc' = "read_slot"
    /\ UNCHANGED <<cEmptyHead, cEmptyTail, item, cRet>>
    /\ UNCHANGED <<ctorVars, ringVars, prodVars, cbVars, histVars, rtVars, bookVars>>

\* pop(): item = buffer_[tail]
PopReadSlot ==
    /\ cpc = "read_slot"
    /\ item' = ReadSlot(buffer_, cTail)
    /\ cpc' = "store_tail"
    /\ UNCHANGED <<cEmptyHead, cEmptyTail, cTail, cRet>>
    /\ UNCHANGED <<ctorVars, ringVars, prodVars, cbVars, histVars, rtVars, bookVars>>

\* pop(): tail_.store((tail + 1) & mask_, release); return true;
PopStoreTail ==
    /\ cpc = "store_tail"
    /\ tail_' = NextTail(cTail, mask_)
    /\ cRet' = TRUE
    /\ cpc' = "ret"
    /\ poppedSeq' = Append(poppedSeq, item)
    /\ UNCHANGED <<cEmptyHead, cEmptyTail, cTail, item, pushLog>>
    /\ UNCHANGED <<capacity_, mask_, buffer_, head_>>
    /\ UNCHANGED <<ctorVars, prodVars, cbVars, rtVars, bookVars>>

PopStep ==
    \/ PopEmptyLoadHead
    \/ PopEmptyLoadTail
    \/ PopLoadTail
    \/ PopReadSlot
    \/ PopStoreTail

----------------------------------------------------------------------------
(* main.cpp: the ingress callback (producer) and print_consumer (consumer) *)

\* the counters after if (queue.try_push(e)) { ... } else { ... }
CountPushed(pushed, ok) == IF ok THEN pushed + 1 ELSE pushed
\* mutant: a refused push is not counted
CountDropped_Never(dropped, ok) == dropped

CountDropped(dropped, ok) == IF ok THEN dropped ELSE dropped + 1

\* mutant: a failed push is tried again
AfterTryPush_Retry(ok) == IF ok THEN "idle" ELSE "full_head"

\* where the callback goes once try_push has returned: it returns to the
\* listener whatever the result
AfterTryPush(ok) == "idle"

\* the listener hands the next event to the callback, which copies it and
\* calls queue.try_push(e)
CallbackEnter ==
    /\ ppc = "idle"
    /\ nextEvent < MaxEvents
    /\ nextEvent' = nextEvent + 1
    /\ pItem' = nextEvent + 1
    /\ ppc' = "full_head"
    /\ UNCHANGED <<pFullHead, pFullTail, pHead, pRet, pPops>>
    /\ UNCHANGED <<events_pushed, events_dropped>>
    /\ UNCHANGED <<ctorVars, ringVars, consVars, histVars, rtVars, bookVars>>

\* try_push has returned: count the event as pushed or dropped and return
CallbackCount ==
    /\ ppc = "ret"
    /\ events_pushed' = CountPushed(events_pushed, pRet)
    /\ events_dropped' = CountDropped(events_dropped, pRet)
    /\ ppc' = AfterTryPush(pRet)
    /\ pFullHead' = 0 /\ pFullTail' = 0 /\ pHead' = 0
    /\ UNCHANGED <<pItem, pRet, pPops, nextEvent>>
    /\ UNCHANGED <<ctorVars, ringVars, consVars, histVars, rtVars, bookVars>>

\* while (...) { OrderBookEvent event; if (queue.try_pop(event)) ...
ConsumerIterate ==
    /\ cpc = "idle"
    /\ item' = DefaultItem
    /\ cpc' = "empty_head"
    /\ UNCHANGED <<cEmptyHead, cEmptyTail, cTail, cRet>>
    /\ UNCHANGED <<ctorVars, ringVars, prodVars, cbVars, histVars, rtVars, bookVars>>

\* try_pop has returned: the event is handled, or the thread yields
ConsumerAfterPop ==
    /\ cpc = "ret"
    /\ cpc' = "idle"
    /\ cEmptyHead' = 0 /\ cEmptyTail' = 0 /\ cTail' = 0
    /\ UNCHANGED <<item, cRet>>
    /\ UNCHANGED <<ctorVars, ringVars, prodVars, cbVars, histVars, rtVars, bookVars>>

----------------------------------------------------------------------------
(* Spec: producer and consumer on one ring *)

NoBook == <<>>

\* the record of a dispatched call: which call, for which order id, the
\* order it found or created (<<>> when it failed), which successful call on
\* the same id came immediately before it ("add", "cancel" or neither), and
\* the book as it was before that add
Trail(op, order_id, order, after, before) ==
    [op |-> op, order_id |-> order_id, order |-> order, after |-> after,
     before |-> before]

NoTrail == Trail("none", 0, <<>>, "", <<>>)

\* OrderBookEvent event; (quote.hpp defaults: kind UNKNOWN, empty strings,
\* side UNKNOWN, zeroes)
NoEvent ==
    [event_type |-> "UNKNOWN", symbol |-> "", order_id |-> 0, side |-> "UNKNOWN",
     price |-> 0, size |-> 0, trade_price |-> 0, trade_size |-> 0,
     is_aggressor |-> FALSE, timestamp |-> 0]

\* nothing has happened since the shutdown flag was set: the events that
\* were in the ring when it was set, and the receives, try_push calls,
\* successful pops and dispatches since
NotShutDown == [in_ring |-> 0, recvs |-> 0, pushes |-> 0, pops |-> 0, dispatches |-> 0]

\* no level stands alone, no second book, no event is being timed
InitAuxIdle ==
    /\ price_level = <<>> /\ books = <<>> /\ book_symbol = "" /\ stamps = <<>>

\* no listener and no consumer are running
InitThreadsOff ==
    /\ shutdown_flag = FALSE
    /\ lpc = "off" /\ datagrams = 0 /\ lrecv = "none"
    /\ kpc = "off" /\ event = NoEvent
    /\ order_books = {} /\ published = <<>> /\ total_events = 0
    /\ after_shutdown = NotShutDown
    /\ overwritten = <<>>

InitPipelineIdle ==
    /\ InitThreadsOff
    /\ InitAuxIdle

InitBookIdle ==
    /\ orders_by_id = NoBook
    /\ bid_levels = NoBook
    /\ ask_levels = NoBook
    /\ ret = FALSE
    /\ added_order = <<>>
    /\ trail = NoTrail
    /\ InitPipelineIdle

InitRoundTripOff ==
    /\ rtPhase = "off"
    /\ rtVals = <<>>
    /\ rtIdx = 0
    /\ rtOut = <<>>
    /\ rtOk = TRUE
    /\ rtRound = 0

\* the ring as SPSCRingBuffer(capacity) leaves it, capacity >= 1
InitRing(capacity) ==
    /\ requested = capacity
    /\ ctor_pc = "constructed"
    /\ actual_capacity = NextPow2(1, capacity)
    /\ capacity_ = NextPow2(1, capacity)
    /\ mask_ = MaskOf(NextPow2(1, capacity))
    /\ buffer_ = FreshBuffer(NextPow2(1, capacity))
    /\ head_ = 0
    /\ tail_ = 0

InitThreads ==
    /\ ppc = "idle" /\ pFullHead = 0 /\ pFullTail = 0 /\ pHead = 0
    /\ pItem = DefaultItem /\ pRet = FALSE /\ pPops = 0
    /\ events_pushed = 0 /\ events_dropped = 0 /\ nextEvent = 0
    /\ cpc = "idle" /\ cEmptyHead = 0 /\ cEmptyTail = 0 /\ cTail = 0 /\ item = DefaultItem /\ cRet = FALSE
    /\ pushLog = <<>> /\ poppedSeq = <<>>

Init ==
    /\ \E r \in 1 .. MaxRequested : InitRing(r)
    /\ InitThreads
    /\ InitRoundTripOff
    /\ InitBookIdle

Next ==
    \/ CallbackEnter
    \/ PushStep
    \/ CallbackCount
    \/ ConsumerIterate
    \/ PopStep
    \/ ConsumerAfterPop

Spec == Init /\ [][Next]_vars

----------------------------------------------------------------------------
(* SpecCtor: SPSCRingBuffer::SPSCRingBuffer(capacity), one loop test per step *)

NoBuffer == <<>>

\* if (capacity == 0) throw std::invalid_argument; size_t actual_capacity = 1;
CtorCheckZero ==
    /\ ctor_pc = "entry"
    /\ IF requested = 0
       THEN /\ ctor_pc' = "invalid_argument"
            /\ actual_capacity' = actual_capacity
       ELSE /\ ctor_pc' = "loop"
            /\ actual_capacity' = 1
    /\ UNCHANGED requested
    /\ UNCHANGED <<ringVars, prodVars, cbVars, consVars, histVars, rtVars, bookVars>>

\* while (actual_capacity < capacity) actual_capacity <<= 1;
CtorLoopStep ==
    /\ ctor_pc = "loop"
    /\ CtorLoopCond(actual_capacity, requested)
    /\ actual_capacity' = ShiftLeft1(actual_capacity)
    /\ UNCHANGED <<requested, ctor_pc>>
    /\ UNCHANGED <<ringVars, prodVars, cbVars, consVars, histVars, rtVars, bookVars>>

\* capacity_ = actual_capacity; mask_ = capacity_ - 1; the buffer is
\* allocated and every element default-constructed
CtorFinish ==
    /\ ctor_pc = "loop"
    /\ ~CtorLoopCond(actual_capacity, requested)
    /\ capacity_' = actual_capacity
    /\ mask_' = MaskOf(actual_capacity)
    /\ buffer_' = FreshBuffer(actual_capacity)
    /\ ctor_pc' = "constructed"
    /\ UNCHANGED <<head_, tail_, requested, actual_capacity>>
    /\ UNCHANGED <<prodVars, cbVars, consVars, histVars, rtVars, bookVars>>

\* aligned_alloc returns null: throw std::bad_alloc, buffer_ stays unset
CtorAllocFails ==
    /\ ctor_pc = "loop"
    /\ ~CtorLoopCond(actual_capacity, requested)
    /\ capacity_' = actual_capacity
    /\ mask_' = MaskOf(actual_capacity)
    /\ ctor_pc' = "bad_alloc"
    /\ UNCHANGED <<buffer_, head_, tail_, requested, actual_capacity>>
    /\ UNCHANGED <<prodVars, cbVars, consVars, histVars, rtVars, bookVars>>

\* the member initialisers: capacity_(0), head_(0), tail_(0), mask_(0)
InitCtor ==
    /\ requested \in 0 .. SizeMod - 1
    /\ ctor_pc = "entry"
    /\ actual_capacity = 0
    /\ capacity_ = 0
    /\ mask_ = 0
    /\ buffer_ = NoBuffer
    /\ head_ = 0
    /\ tail_ = 0
    /\ InitThreads
    /\ InitRoundTripOff
    /\ InitBookIdle

NextCtor ==
    \/ CtorCheckZero
    \/ CtorLoopStep
    \/ CtorFinish
    \/ CtorAllocFails

SpecCtor == InitCtor /\ [][NextCtor]_vars

IsPowerOfTwo(n) == \E k \in 0 .. SizeBits : n = 2 ^ k

\* C7: for every requested capacity r >= 1 the constructed ring's capacity is
\* the smallest power of two >= r and mask is capacity - 1; a requested
\* capacity of 0 is rejected with an error and no ring is created.
C7_CapacityIsNextPowerOfTwo ==
    /\ ctor_pc = "constructed" =>
           /\ requested >= 1
           /\ IsPowerOfTwo(capacity_)
           /\ capacity_ >= requested
           /\ ~\E c \in 1 .. capacity_ - 1 : IsPowerOfTwo(c) /\ c >= requested
           /\ mask_ = capacity_ - 1
           /\ DOMAIN buffer_ = 0 .. capacity_ - 1
    /\ requested = 0 =>
           /\ ctor_pc \in {"entry", "invalid_argument"}
           /\ capacity_ = 0
           /\ buffer_ = NoBuffer

\* a request that is not a power of two, rounded up, and one that is, kept
C7_Witness ==
    /\ ctor_pc = "constructed"
    /\ \/ requested = 5 /\ capacity_ = 8
       \/ requested = 4 /\ capacity_ = 4

----------------------------------------------------------------------------
(* SpecRoundTrip: one caller pushes n values with try_push, then pops n with *)
(* try_pop; each call runs the same steps as above                          *)

Values == 1 .. MaxValue

\* the value sequences of length n
SeqsOfLen(n) == [1 .. n -> Values]

\* a round starts on an empty ring with both sides outside any call
RTBegin ==
    /\ rtPhase \in {"start", "done"}
    /\ rtRound < MaxRounds
    /\ ppc = "idle" /\ cpc = "idle"
    /\ head_ = tail_
    /\ \E n \in 0 .. capacity_ - 1 : \E vs \in SeqsOfLen(n) : rtVals' = vs
    /\ rtPhase' = "push"
    /\ rtIdx' = 0
    /\ rtOut' = <<>>
    /\ rtOk' = TRUE
    /\ rtRound' = rtRound + 1
    /\ UNCHANGED <<ctorVars, ringVars, prodVars, cbVars, consVars, histVars, bookVars>>

\* bool try_push(const T& item) { return push(item); }
RTCallPush ==
    /\ rtPhase = "push"
    /\ ppc = "idle"
    /\ rtIdx < Len(rtVals)
    /\ pItem' = rtVals[rtIdx + 1]
    /\ ppc' = "full_head"
    /\ UNCHANGED <<pFullHead, pFullTail, pHead, pRet, pPops>>
    /\ UNCHANGED <<ctorVars, ringVars, cbVars, consVars, histVars, rtVars, bookVars>>

RTPushReturn ==
    /\ rtPhase = "push"
    /\ ppc = "ret"
    /\ rtOk' = (rtOk /\ pRet)
    /\ rtIdx' = rtIdx + 1
    /\ ppc' = "idle"
    /\ pFullHead' = 0 /\ pFullTail' = 0 /\ pHead' = 0
    /\ UNCHANGED <<pItem, pRet, pPops>>
    /\ UNCHANGED <<rtPhase, rtVals, rtOut, rtRound>>
    /\ UNCHANGED <<ctorVars, ringVars, cbVars, consVars, histVars, bookVars>>

\* all n pushes have returned: the pops follow
RTStartPops ==
    /\ rtPhase = "push"
    /\ ppc = "idle"
    /\ rtIdx = Len(rtVals)
    /\ rtPhase' = "pop"
    /\ rtIdx' = 0
    /\ UNCHANGED <<rtVals, rtOut, rtOk, rtRound>>
    /\ UNCHANGED <<ctorVars, ringVars, prodVars, cbVars, consVars, histVars, bookVars>>

\* bool try_pop(T& item) { return pop(item); }
RTCallPop ==
    /\ rtPhase = "pop"
    /\ cpc = "idle"
    /\ rtIdx < Len(rtVals)
    /\ item' = DefaultItem
    /\ cpc' = "empty_head"
    /\ UNCHANGED <<cEmptyHead, cEmptyTail, cTail, cRet>>
    /\ UNCHANGED <<ctorVars, ringVars, prodVars, cbVars, histVars, rtVars, bookVars>>

RTPopReturn ==
    /\ rtPhase = "pop"
    /\ cpc = "ret"
    /\ rtOk' = (rtOk /\ cRet)
    /\ rtOut' = IF cRet THEN Append(rtOut, item) ELSE rtOut
    /\ rtIdx' = rtIdx + 1
    /\ cpc' = "idle"
    /\ cEmptyHead' = 0 /\ cEmptyTail' = 0 /\ cTail' = 0
    /\ UNCHANGED <<item, cRet>>
    /\ UNCHANGED <<rtPhase, rtVals, rtRound>>
    /\ UNCHANGED <<ctorVars, ringVars, prodVars, cbVars, histVars, bookVars>>

\* all n pops have returned
RTFinish ==
    /\ rtPhase = "pop"
    /\ cpc = "idle"
    /\ rtIdx = Len(rtVals)
    /\ rtPhase' = "done"
    /\ UNCHANGED <<rtVals, rtIdx, rtOut, rtOk, rtRound>>
    /\ UNCHANGED <<ctorVars, ringVars, prodVars, cbVars, consVars, histVars, bookVars>>

InitRoundTrip ==
    /\ \E r \in 1 .. MaxRequested : InitRing(r)
    /\ InitThreads
    /\ rtPhase = "start"
    /\ rtVals = <<>>
    /\ rtIdx = 0
    /\ rtOut = <<>>
    /\ rtOk = TRUE
    /\ rtRound = 0
    /\ InitBookIdle

NextRoundTrip ==
    \/ RTBegin
    \/ RTCallPush
    \/ PushStep
    \/ RTPushReturn
    \/ RTStartPops
    \/ RTCallPop
    \/ PopStep
    \/ RTPopReturn
    \/ RTFinish

SpecRoundTrip == InitRoundTrip /\ [][NextRoundTrip]_vars

\* C3: from an empty ring of capacity C, for any n <= C - 1 values, n
\* try_push calls all return true, n following try_pop calls all return true
\* and yield the same values in the same order, and the ring is empty again.
C3_RoundTrip ==
    /\ rtPhase = "pop" => (rtOk /\ (Len(rtOut) <= Len(rtVals) /\ \A i \in 1 .. Len(rtOut) : rtOut[i] = rtVals[i]))
    /\ rtPhase = "done" =>
           /\ rtOk
           /\ rtOut = rtVals
           /\ empty(head_, tail_)
           /\ size(head_, tail_, capacity_) = 0

\* a second round of capacity - 1 = 3 values, started at a non-zero index,
\* that has wrapped around the end of the buffer
C3_Witness ==
    /\ rtPhase = "done"
    /\ rtRound = 2
    /\ capacity_ = 4
    /\ Len(rtVals) = 3
    /\ rtVals[1] # rtVals[2]
    /\ head_ = 1

----------------------------------------------------------------------------
(* orderbook.hpp: PriceLevel *)

U32Mod == 2 ^ U32Bits
OrderIds == 1 .. MaxOrders
Prices == 0 .. MaxPrice
Sizes == {0, 1, U32Mod - 1}
Sides == {"BID", "ASK", "UNKNOWN"}

\* struct Order (timestamp and symbol are carried, never read by the book)
Order(order_id, side, price, sz) ==
    [order_id |-> order_id, side |-> side, price |-> price, size |-> sz]

\* struct OrderEntry
OrderEntry(order_id, sz) == [order_id |-> order_id, size |-> sz]

\* std::deque<OrderEntry>::iterator: the position it was taken at, and
\* whether the deque has invalidated it since
Iter(pos, valid) == [pos |-> pos, valid |-> valid]

\* PriceLevel(double p)
PriceLevel(p) ==
    [price |-> p, total_size |-> 0, order_queue |-> <<>>, order_lookup |-> <<>>]

\* the positions an iterator may designate when it is dereferenced: its own
\* while it is valid; after emplace_back has invalidated it the access is
\* undefined and may land on any entry
Deref(level, it) ==
    IF it.valid THEN {it.pos} ELSE 1 .. Len(level.order_queue)

\* order_queue.emplace_back(...) invalidates every iterator into the deque
InvalidateAll(lookup) ==
    [k \in DOMAIN lookup |-> Iter(lookup[k].pos, FALSE)]

\* PriceLevel::add_order
PriceLevel_add_order(level, order_id, sz) ==
    LET queue == Append(level.order_queue, OrderEntry(order_id, sz))
        stale == InvalidateAll(level.order_lookup)
        it    == Iter(Len(queue), TRUE)
    IN  [price        |-> level.price,
         total_size   |-> (level.total_size + sz) % U32Mod,
         order_queue  |-> queue,
         order_lookup |-> [k \in DOMAIN stale \cup {order_id} |->
                              IF k = order_id THEN it ELSE stale[k]]]

\* PriceLevel::modify_order, the entry at position pos being the one the
\* stored iterator designates
PriceLevel_modify_order(level, order_id, new_size, pos) ==
    IF order_id \notin DOMAIN level.order_lookup THEN level
    ELSE [level EXCEPT
            !.total_size = (@ + U32Mod - level.order_queue[pos].size + new_size) % U32Mod,
            !.order_queue[pos].size = new_size]

\* an erase that takes the front entry whatever the position
RemoveAt_Front(queue, pos) == Tail(queue)

RemoveAt(queue, pos) ==
    [i \in 1 .. Len(queue) - 1 |-> IF i < pos THEN queue[i] ELSE queue[i + 1]]

\* PriceLevel::rebuild_lookup: later entries overwrite earlier ones
rebuild_lookup(queue) ==
    [k \in {queue[i].order_id : i \in 1 .. Len(queue)} |->
        Iter(CHOOSE i \in 1 .. Len(queue) :
                 /\ queue[i].order_id = k
                 /\ \A j \in i + 1 .. Len(queue) : queue[j].order_id # k,
             TRUE)]

\* PriceLevel::remove_order, the entry at position pos being the one the
\* stored iterator designates
PriceLevel_remove_order(level, order_id, pos) ==
    IF order_id \notin DOMAIN level.order_lookup THEN level
    ELSE LET queue == RemoveAt(level.order_queue, pos)
         IN  [price        |-> level.price,
              total_size   |-> (level.total_size + U32Mod
                                  - level.order_queue[pos].size) % U32Mod,
              order_queue  |-> queue,
              order_lookup |-> rebuild_lookup(queue)]

\* a level that never reports itself empty
PriceLevel_empty_Never(level) == FALSE

\* PriceLevel::empty
PriceLevel_empty(level) == level.order_queue = <<>>

----------------------------------------------------------------------------
(* orderbook.hpp: OrderBook *)

\* levels without the key price
EraseKey(levels, price) == [p \in DOMAIN levels \ {price} |-> levels[p]]

\* if (levels.find(price) == levels.end()) levels[price] = PriceLevel(price);
\* levels[price].add_order(order_id, size, timestamp);
LevelsAdd(levels, price, order_id, sz) ==
    LET base == IF price \in DOMAIN levels THEN levels
                ELSE [p \in DOMAIN levels \cup {price} |->
                         IF p = price THEN PriceLevel(price) ELSE levels[p]]
    IN  [base EXCEPT ![price] = PriceLevel_add_order(@, order_id, sz)]

\* the ladders modify_order may leave: level_it->second.modify_order(...)
LevelsModify(levels, price, order_id, new_size) ==
    IF price \notin DOMAIN levels THEN {levels}
    ELSE IF order_id \notin DOMAIN levels[price].order_lookup THEN {levels}
    ELSE {[levels EXCEPT ![price] = PriceLevel_modify_order(@, order_id, new_size, pos)] :
             pos \in Deref(levels[price], levels[price].order_lookup[order_id])}

\* the ladders cancel_order may leave: level_it->second.remove_order(...);
\* if (level_it->second.empty()) levels.erase(level_it);
LevelsCancel(levels, price, order_id) ==
    IF price \notin DOMAIN levels THEN {levels}
    ELSE IF order_id \notin DOMAIN levels[price].order_lookup
         THEN {IF PriceLevel_empty(levels[price]) THEN EraseKey(levels, price) ELSE levels}
    ELSE {LET level == PriceLevel_remove_order(levels[price], order_id, pos)
          IN  IF PriceLevel_empty(level) THEN EraseKey(levels, price)
              ELSE [levels EXCEPT ![price] = level] :
             pos \in Deref(levels[price], levels[price].order_lookup[order_id])}

\* an add without the check for an existing id
add_order_Overwrite(order_id, side, price, sz) ==
    /\ orders_by_id' =
           [k \in DOMAIN orders_by_id \cup {order_id} |->
               IF k = order_id THEN Order(order_id, side, price, sz)
               ELSE orders_by_id[k]]
    /\ bid_levels' = IF side = "BID"
                     THEN LevelsAdd(bid_levels, price, order_id, sz)
                     ELSE bid_levels
    /\ ask_levels' = IF side = "ASK"
                     THEN LevelsAdd(ask_levels, price, order_id, sz)
                     ELSE ask_levels
    /\ ret' = TRUE
    /\ UNCHANGED <<ctorVars, ringVars, prodVars, cbVars, consVars, histVars, rtVars>>

\* OrderBook::add_order
add_order(order_id, side, price, sz) ==
    /\ IF order_id \in DOMAIN orders_by_id
       THEN /\ ret' = FALSE
            /\ UNCHANGED <<orders_by_id, bid_levels, ask_levels>>
       ELSE /\ orders_by_id' =
                [k \in DOMAIN orders_by_id \cup {order_id} |->
                    IF k = order_id THEN Order(order_id, side, price, sz)
                    ELSE orders_by_id[k]]
            /\ bid_levels' = IF side = "BID"
                             THEN LevelsAdd(bid_levels, price, order_id, sz)
                             ELSE bid_levels
            /\ ask_levels' = IF side = "ASK"
                             THEN LevelsAdd(ask_levels, price, order_id, sz)
                             ELSE ask_levels
            /\ ret' = TRUE
    /\ UNCHANGED <<ctorVars, ringVars, prodVars, cbVars, consVars, histVars, rtVars>>

\* OrderBook::modify_order
modify_order(order_id, new_size) ==
    /\ IF order_id \notin DOMAIN orders_by_id
       THEN /\ ret' = FALSE
            /\ UNCHANGED <<orders_by_id, bid_levels, ask_levels>>
       ELSE LET order == orders_by_id[order_id]
            IN  /\ orders_by_id' = [orders_by_id EXCEPT ![order_id].size = new_size]
                /\ bid_levels' \in IF order.side = "BID"
                                   THEN LevelsModify(bid_levels, order.price, order_id, new_size)
                                   ELSE {bid_levels}
                /\ ask_levels' \in IF order.side = "ASK"
                                   THEN LevelsModify(ask_levels, order.price, order_id, new_size)
                                   ELSE {ask_levels}
                /\ ret' = TRUE
    /\ UNCHANGED <<ctorVars, ringVars, prodVars, cbVars, consVars, histVars, rtVars>>

\* a cancel that leaves the id in the index
cancel_order_KeepId(order_id) ==
    /\ IF order_id \notin DOMAIN orders_by_id
       THEN /\ ret' = FALSE
            /\ UNCHANGED <<orders_by_id, bid_levels, ask_levels>>
       ELSE LET order == orders_by_id[order_id]
            IN  /\ bid_levels' \in IF order.side = "BID"
                                   THEN LevelsCancel(bid_levels, order.price, order_id)
                                   ELSE {bid_levels}
                /\ ask_levels' \in IF order.side = "ASK"
                                   THEN LevelsCancel(ask_levels, order.price, order_id)
                                   ELSE {ask_levels}
                /\ UNCHANGED orders_by_id
                /\ ret' = TRUE
    /\ UNCHANGED <<ctorVars, ringVars, prodVars, cbVars, consVars, histVars, rtVars>>

\* OrderBook::cancel_order
cancel_order(order_id) ==
    /\ IF order_id \notin DOMAIN orders_by_id
       THEN /\ ret' = FALSE
            /\ UNCHANGED <<orders_by_id, bid_levels, ask_levels>>
       ELSE LET order == orders_by_id[order_id]
            IN  /\ bid_levels' \in IF order.side = "BID"
                                   THEN LevelsCancel(bid_levels, order.price, order_id)
                                   ELSE {bid_levels}
                /\ ask_levels' \in IF order.side = "ASK"
                                   THEN LevelsCancel(ask_levels, order.price, order_id)
                                   ELSE {ask_levels}
                /\ orders_by_id' = EraseKey(orders_by_id, order_id)
                /\ ret' = TRUE
    /\ UNCHANGED <<ctorVars, ringVars, prodVars, cbVars, consVars, histVars, rtVars>>

\* std::map<double, PriceLevel, std::greater<double>>::begin(): the greatest key
BeginGreater(levels) ==
    CHOOSE p \in DOMAIN levels : \A q \in DOMAIN levels : p >= q

\* std::map<double, PriceLevel>::begin(): the least key
BeginLess(levels) ==
    CHOOSE p \in DOMAIN levels : \A q \in DOMAIN levels : p <= q

\* a best bid read from the wrong end of the ladder
get_best_bid_Lowest ==
    IF bid_levels = <<>> THEN <<0, 0>>
    ELSE LET it == BeginLess(bid_levels)
         IN  <<bid_levels[it].price, bid_levels[it].total_size>>

\* OrderBook::get_best_bid
get_best_bid ==
    IF bid_levels = <<>> THEN <<0, 0>>
    ELSE LET it == BeginGreater(bid_levels)
         IN  <<bid_levels[it].price, bid_levels[it].total_size>>

\* OrderBook::get_best_ask
get_best_ask ==
    IF ask_levels = <<>> THEN <<0, 0>>
    ELSE LET it == BeginLess(ask_levels)
         IN  <<ask_levels[it].price, ask_levels[it].total_size>>

\* a spread taken as bid minus ask
get_spread_BidMinusAsk ==
    LET bid == get_best_bid
        ask == get_best_ask
    IN  IF bid[1] > 0 /\ ask[1] > 0 THEN bid[1] - ask[1] ELSE 0

\* OrderBook::get_spread
get_spread ==
    LET bid == get_best_bid
        ask == get_best_ask
    IN  IF bid[1] > 0 /\ ask[1] > 0 THEN ask[1] - bid[1] ELSE 0

\* PriceLevel::get_orders_fifo, then the ids of the copies
get_orders_fifo(level) ==
    [i \in 1 .. Len(level.order_queue) |-> level.order_queue[i].order_id]

\* OrderBook::get_orders_at_price
get_orders_at_price(side, price) ==
    IF side = "BID"
    THEN IF price \in DOMAIN bid_levels THEN get_orders_fifo(bid_levels[price]) ELSE <<>>
    ELSE IF side = "ASK"
    THEN IF price \in DOMAIN ask_levels THEN get_orders_fifo(ask_levels[price]) ELSE <<>>
    ELSE <<>>

----------------------------------------------------------------------------
(* SpecBook: any sequence of add / modify / cancel calls on one book *)

\* the number of entries resting in one ladder
RECURSIVE SumLen(_, _)
SumLen(levels, ps) ==
    IF ps = {} THEN 0
    ELSE LET p == CHOOSE q \in ps : TRUE
         IN  Len(levels[p].order_queue) + SumLen(levels, ps \ {p})
EntryCount(levels) == SumLen(levels, DOMAIN levels)

\* what the book's accessors can tell of one ladder: per price the level's
\* price, aggregate size and FIFO list
LevelView(levels) ==
    [p \in DOMAIN levels |->
        [price       |-> levels[p].price,
         total_size  |-> levels[p].total_size,
         order_queue |-> levels[p].order_queue]]

\* the id index and both ladders
BookView == <<orders_by_id, LevelView(bid_levels), LevelView(ask_levels)>>

\* the successful add or cancel of order_id that the last call was, if any
JustDid(order_id) ==
    IF ret /\ trail.order_id = order_id /\ trail.op \in {"add", "cancel"}
    THEN trail.op ELSE ""

\* case ADD_ORDER: book.add_order(event.order_id, event.side, event.price, event.size, ...)
DispatchAdd ==
    /\ EntryCount(bid_levels) + EntryCount(ask_levels) < MaxEntries
    /\ \E order_id \in OrderIds, side \in Sides, price \in Prices, sz \in Sizes :
           /\ add_order(order_id, side, price, sz)
           /\ added_order' = IF ret' THEN Append(added_order, order_id)
                             ELSE added_order
           /\ trail' = Trail("add", order_id,
                             IF ret' THEN orders_by_id'[order_id] ELSE <<>>,
                             JustDid(order_id),
                             IF ret' THEN BookView ELSE <<>>)
           /\ UNCHANGED pipeVars

\* case MODIFY_ORDER: book.modify_order(event.order_id, event.size)
DispatchModify ==
    \E order_id \in OrderIds, sz \in Sizes :
        /\ modify_order(order_id, sz)
        /\ UNCHANGED added_order
        /\ trail' = Trail("modify", order_id,
                          IF ret' THEN orders_by_id[order_id] ELSE <<>>,
                          JustDid(order_id), <<>>)
        /\ UNCHANGED pipeVars

\* case CANCEL_ORDER, case DELETE_ORDER: book.cancel_order(event.order_id)
DispatchCancel ==
    \E order_id \in OrderIds :
        /\ cancel_order(order_id)
        /\ added_order' = IF ret' THEN SelectSeq(added_order, LAMBDA k : k # order_id)
                          ELSE added_order
        /\ trail' = Trail("cancel", order_id,
                          IF ret' THEN orders_by_id[order_id] ELSE <<>>,
                          JustDid(order_id),
                          IF ret' /\ JustDid(order_id) = "add" THEN trail.before
                          ELSE <<>>)
        /\ UNCHANGED pipeVars

\* OrderBook() = default: no orders, no levels
InitBook ==
    /\ InitRing(1)
    /\ InitThreads
    /\ InitRoundTripOff
    /\ orders_by_id = <<>>
    /\ bid_levels = <<>>
    /\ ask_levels = <<>>
    /\ ret = FALSE
    /\ added_order = <<>>
    /\ trail = NoTrail
    /\ InitPipelineIdle

NextBook ==
    \/ DispatchAdd
    \/ DispatchModify
    \/ DispatchCancel

SpecBook == InitBook /\ [][NextBook]_vars

\* the <<side, price, position>> places of one ladder that hold an entry
\* for order_id
EntriesIn(side, levels, order_id) ==
    UNION {{<<side, p, i>> :
               i \in {j \in 1 .. Len(levels[p].order_queue) :
                         levels[p].order_queue[j].order_id = order_id}} :
           p \in DOMAIN levels}

EntriesOf(order_id) ==
    EntriesIn("BID", bid_levels, order_id) \cup EntriesIn("ASK", ask_levels, order_id)

\* C9: after every dispatched event, for any add / modify / cancel sequence
\* with any side values, every order id in the id index has exactly one
\* price-level entry, and it lies in the ladder of the order's recorded side
\* at the order's recorded price.
C9_IndexedOrderHasOneEntry ==
    \A order_id \in DOMAIN orders_by_id :
        /\ Cardinality(EntriesOf(order_id)) = 1
        /\ \A x \in EntriesOf(order_id) :
               /\ x[1] = orders_by_id[order_id].side
               /\ x[2] = orders_by_id[order_id].price

\* C10: add_order with side Unknown reports failure and leaves the id index
\* and both ladders unchanged; the id does not become live.
C10_UnknownSideRejected ==
    [][\A order_id \in OrderIds, price \in Prices, sz \in Sizes :
          add_order(order_id, "UNKNOWN", price, sz) =>
              /\ ret' = FALSE
              /\ UNCHANGED <<orders_by_id, bid_levels, ask_levels>>]_vars

----------------------------------------------------------------------------
(* Price levels: aggregates, empty levels *)

\* the ladders of the book, each tagged with its side
Ladders == {<<"BID", bid_levels>>, <<"ASK", ask_levels>>}

\* the sum of the sizes of the entries of a FIFO list
RECURSIVE SumSizes(_)
SumSizes(queue) ==
    IF queue = <<>> THEN 0 ELSE Head(queue).size + SumSizes(Tail(queue))

\* the order ids of a FIFO list, front first
IdsOf(queue) == [i \in 1 .. Len(queue) |-> queue[i].order_id]

\* C11: after every dispatched event, each price level's total_size equals
\* the sum of the sizes of the entries in that level's FIFO list.
C11_AggregateIsSumOfEntries ==
    \A l \in Ladders : \A p \in DOMAIN l[2] :
        l[2][p].total_size = SumSizes(l[2][p].order_queue)

\* C12: after every dispatched event, whatever unsigned 32-bit sizes the
\* events carry, no level present in either ladder has aggregate size zero,
\* and a level's entry list is empty exactly when its aggregate size is zero.
C12_NoZeroAggregate ==
    \A l \in Ladders : \A p \in DOMAIN l[2] :
        /\ l[2][p].total_size # 0
        /\ (l[2][p].order_queue = <<>>) <=> (l[2][p].total_size = 0)

\* C13: no ladder ever contains a level whose entry list is empty; a cancel
\* of the only order resting at a price erases that level from its ladder;
\* an add at a price that has no level in the order's ladder inserts one.
C13_NoEmptyLevel ==
    /\ [](\A l \in Ladders : \A p \in DOMAIN l[2] : l[2][p].order_queue # <<>>)
    /\ [][\A order_id \in DOMAIN orders_by_id :
             LET order == orders_by_id[order_id]
             IN  (trail'.op = "cancel" /\ trail'.order_id = order_id
                    /\ cancel_order(order_id)) =>
                     /\ (/\ order.side = "BID"
                         /\ order.price \in DOMAIN bid_levels
                         /\ IdsOf(bid_levels[order.price].order_queue) = <<order_id>>)
                            => order.price \notin DOMAIN bid_levels'
                     /\ (/\ order.side = "ASK"
                         /\ order.price \in DOMAIN ask_levels
                         /\ IdsOf(ask_levels[order.price].order_queue) = <<order_id>>)
                            => order.price \notin DOMAIN ask_levels']_vars
    /\ [][\A order_id \in OrderIds \ DOMAIN orders_by_id :
             (trail'.op = "add" /\ trail'.order_id = order_id) =>
                 LET order == trail'.order
                 IN  /\ (/\ add_order(order_id, "BID", order.price, order.size)
                         /\ order.price \notin DOMAIN bid_levels)
                        => /\ order.price \in DOMAIN bid_levels'
                           /\ IdsOf(bid_levels'[order.price].order_queue) = <<order_id>>
                     /\ (/\ add_order(order_id, "ASK", order.price, order.size)
                         /\ order.price \notin DOMAIN ask_levels)
                        => /\ order.price \in DOMAIN ask_levels'
                           /\ IdsOf(ask_levels'[order.price].order_queue) = <<order_id>>]_vars

\* an order was added at a price that had no level, and cancelled by the
\* next call: the level the add inserted is gone again, the other ladder's
\* level is still there
C13_Witness ==
    /\ trail.op = "cancel" /\ ret
    /\ trail.after = "add"
    /\ trail.order.side = "BID" /\ trail.order.price = 2
    /\ trail.before[2] = <<>>
    /\ bid_levels = <<>>
    /\ DOMAIN ask_levels = {1}

----------------------------------------------------------------------------
(* Best prices, failed calls, add-then-cancel *)

\* C14: in every reachable book state get_best_bid returns the greatest
\* price of the bid ladder with that level's aggregate size, get_best_ask the
\* least price of the ask ladder with that level's aggregate size, and each
\* returns (0, 0) when its ladder is empty.
C14_BestBidAsk ==
    /\ IF bid_levels = <<>> THEN get_best_bid = <<0, 0>>
       ELSE \E p \in DOMAIN bid_levels :
                /\ \A q \in DOMAIN bid_levels : q <= p
                /\ get_best_bid = <<p, bid_levels[p].total_size>>
    /\ IF ask_levels = <<>> THEN get_best_ask = <<0, 0>>
       ELSE \E p \in DOMAIN ask_levels :
                /\ \A q \in DOMAIN ask_levels : q >= p
                /\ get_best_ask = <<p, ask_levels[p].total_size>>

\* two bid levels, the lower one added last, and no ask level
C14_Witness ==
    /\ DOMAIN bid_levels = {1, 2}
    /\ trail.op = "add" /\ ret
    /\ trail.order.side = "BID" /\ trail.order.price = 1
    /\ get_best_bid = <<2, 1>>
    /\ bid_levels[1].total_size = U32Mod - 1
    /\ get_best_ask = <<0, 0>>

\* C15: add_order for an id that is live fails and leaves the id index, both
\* ladders, every FIFO list and every aggregate size as they were, whatever
\* side, price and size the duplicate carries.
C15_DuplicateAddRejected ==
    [][\A order_id \in DOMAIN orders_by_id :
          (trail'.op = "add" /\ trail'.order_id = order_id) =>
              /\ \E side \in Sides, price \in Prices, sz \in Sizes :
                     add_order(order_id, side, price, sz)
              /\ ret' = FALSE
              /\ UNCHANGED <<orders_by_id, bid_levels, ask_levels>>]_vars

\* a duplicate add was refused while the first order rests
C15_Witness ==
    /\ trail.op = "add" /\ ~ret
    /\ trail.order_id \in DOMAIN orders_by_id
    /\ orders_by_id[trail.order_id].side = "ASK"
    /\ ask_levels # <<>>

\* C16: modify_order and cancel_order for an id that is not live fail and
\* leave the book unchanged; a cancel of a live id succeeds and a second
\* cancel of the same id right after it fails.
C16_UnknownOrderRejected ==
    /\ [][\A order_id \in OrderIds \ DOMAIN orders_by_id :
             (trail'.op \in {"modify", "cancel"} /\ trail'.order_id = order_id) =>
                 /\ \/ cancel_order(order_id)
                    \/ \E sz \in Sizes : modify_order(order_id, sz)
                 /\ ret' = FALSE
                 /\ UNCHANGED <<orders_by_id, bid_levels, ask_levels>>]_vars
    /\ [][\A order_id \in DOMAIN orders_by_id :
             (trail'.op = "cancel" /\ trail'.order_id = order_id) => ret' = TRUE]_vars
    /\ [](trail.op = "cancel" /\ trail.after = "cancel" => ret = FALSE)

\* the second of two consecutive cancels of one id, whose order rested on
\* the bid ladder beside another one, has failed
C16_Witness ==
    /\ trail.op = "cancel" /\ trail.after = "cancel" /\ ~ret
    /\ bid_levels # <<>>

\* C17: a successful add_order of an id that was not live, immediately
\* followed by cancel_order of the same id, leaves the id index, the levels
\* of both ladders, their FIFO lists and their aggregate sizes as they were
\* before the add.
C17_AddThenCancelRestores ==
    (trail.op = "cancel" /\ ret /\ trail.after = "add") => BookView = trail.before

\* an order was added behind another at the same price and then cancelled
C17_Witness ==
    /\ trail.op = "cancel" /\ ret /\ trail.after = "add"
    /\ trail.order.side = "BID"
    /\ trail.order.price \in DOMAIN bid_levels
    /\ trail.order.size = 1
    /\ bid_levels[trail.order.price].total_size = U32Mod - 1

----------------------------------------------------------------------------
(* Modify frame, time priority, crossed books *)

\* the greater of two prices
Max(a, b) == IF a >= b THEN a ELSE b

\* the least of two prices
Min(a, b) == IF a <= b THEN a ELSE b

\* a modify of order order_id to new_size took a level from before to after
\* touching only that order's entry: same ids in the same positions, that
\* entry's size new_size, every other size as it was, the aggregate moved by
\* new_size - old_size in 32-bit arithmetic
OnlyEntryResized(before, after, order_id, old_size, new_size) ==
    /\ after.price = before.price
    /\ IdsOf(after.order_queue) = IdsOf(before.order_queue)
    /\ \A i \in 1 .. Len(before.order_queue) :
           after.order_queue[i].size =
               IF before.order_queue[i].order_id = order_id THEN new_size
               ELSE before.order_queue[i].size
    /\ after.total_size = (before.total_size + U32Mod - old_size + new_size) % U32Mod

\* a modify of an order took a ladder from before to after touching only the
\* order's entry in the level at the order's price
LadderOnlyResized(before, after, order, new_size) ==
    /\ DOMAIN after = DOMAIN before
    /\ \A p \in DOMAIN before :
           IF p = order.price
           THEN OnlyEntryResized(before[p], after[p], order.order_id, order.size, new_size)
           ELSE LevelView(after)[p] = LevelView(before)[p]

\* C18: a successful modify_order(id, new_size) changes only the size of the
\* order's record and of its level entry and the owning level's aggregate
\* size, which moves by new_size minus the old size; the order's price, side
\* and FIFO position and every other entry, level and order stay as they were.
C18_ModifyFrame ==
    [][\A order_id \in DOMAIN orders_by_id :
          (trail'.op = "modify" /\ trail'.order_id = order_id) =>
              LET order    == orders_by_id[order_id]
                  new_size == orders_by_id'[order_id].size
              IN  /\ modify_order(order_id, new_size)
                  /\ ret' = TRUE
                  /\ orders_by_id' = [orders_by_id EXCEPT ![order_id].size = new_size]
                  /\ IF order.side = "BID"
                     THEN LadderOnlyResized(bid_levels, bid_levels', order, new_size)
                     ELSE LevelView(bid_levels') = LevelView(bid_levels)
                  /\ IF order.side = "ASK"
                     THEN LadderOnlyResized(ask_levels, ask_levels', order, new_size)
                     ELSE LevelView(ask_levels') = LevelView(ask_levels)]_vars

\* the live orders resting at one side and price, in the order they were added
LiveInAddOrder(side, price) ==
    SelectSeq(added_order,
              LAMBDA k : /\ k \in DOMAIN orders_by_id
                         /\ orders_by_id[k].side = side
                         /\ orders_by_id[k].price = price)

\* C19: within every price level, after any sequence of adds, modifies and
\* cancels, the FIFO listing of resting order ids is the sequence of the
\* still-live orders of that side and price in the order they were added.
C19_FifoIsInsertionOrder ==
    \A side \in {"BID", "ASK"}, price \in Prices :
        get_orders_at_price(side, price) = LiveInAddOrder(side, price)

----------------------------------------------------------------------------
(* Histories *)

IsPrefix(p, q) == Len(p) <= Len(q) /\ \A i \in 1 .. Len(p) : p[i] = q[i]

\* the values passed to successful try_push calls, in order
RECURSIVE PushedSeq(_)
PushedSeq(log) ==
    IF log = <<>> THEN <<>>
    ELSE IF log[1].ok THEN <<log[1].id>> \o PushedSeq(Tail(log))
         ELSE PushedSeq(Tail(log))

DroppedIds == {pushLog[i].id : i \in {j \in 1 .. Len(pushLog) : ~pushLog[j].ok}}
PoppedIds == {poppedSeq[i] : i \in 1 .. Len(poppedSeq)}

----------------------------------------------------------------------------
(* Claims about the ring under Spec *)

\* C1: with one producer in try_push and one consumer in try_pop, interleaved
\* step by step, the values returned by successful try_pop calls are always a
\* prefix of the values passed to successful try_push calls.
C1_FifoPrefix == IsPrefix(poppedSeq, PushedSeq(pushLog))

\* both threads inside an operation, a push already refused, three values popped
C1_Witness ==
    /\ Len(poppedSeq) >= 3
    /\ DroppedIds # {}
    /\ ppc = "write_slot"
    /\ cpc = "read_slot"

\* C2: head and tail lie in [0, capacity - 1] and size() is at most
\* capacity - 1 in every reachable state of the ring.
C2_IndexRange ==
    /\ head_ \in 0 .. capacity_ - 1
    /\ tail_ \in 0 .. capacity_ - 1
    /\ size(head_, tail_, capacity_) \in 0 .. capacity_ - 1

\* a ring of capacity 4 holding 3 elements with head wrapped behind tail
C2_Witness ==
    /\ capacity_ = 4
    /\ head_ < tail_
    /\ size(head_, tail_, capacity_) = capacity_ - 1

\* the first n try_push calls of the run all loaded the consumer index before
\* any pop had completed: n consecutive pushes on the empty ring
ConsecutiveFromEmpty(n) ==
    /\ Len(pushLog) >= n
    /\ \A i \in 1 .. n : pushLog[i].pops = 0

\* C4 as stated: on a ring requested with capacity 3, four consecutive
\* try_push calls on the empty ring succeed and the fifth returns false.
C4_FourPushesSucceed ==
    /\ (requested = 3 /\ ConsecutiveFromEmpty(4)) =>
           \A i \in 1 .. 4 : pushLog[i].ok
    /\ (requested = 3 /\ ConsecutiveFromEmpty(5)) => ~pushLog[5].ok

\* C4 amended: on a ring requested with capacity 3 (capacity 4, mask 3), three
\* consecutive try_push calls on the empty ring succeed and the fourth
\* returns false.
C4_ThreePushesSucceed ==
    /\ requested = 3 => (capacity_ = 4 /\ mask_ = 3)
    /\ \A n \in 1 .. 3 :
           (requested = 3 /\ ConsecutiveFromEmpty(n)) => pushLog[n].ok
    /\ (requested = 3 /\ ConsecutiveFromEmpty(4)) => ~pushLog[4].ok

C4_Witness == requested = 3 /\ ConsecutiveFromEmpty(4)

\* push i was refused, exactly one pop completed before push i+1 loaded the
\* consumer index
RefusedThenOnePop(i) ==
    /\ i + 1 <= Len(pushLog)
    /\ ~pushLog[i].ok
    /\ pushLog[i + 1].pops = pushLog[i].pops + 1

\* C5: after a try_push refused because the ring is full and exactly one
\* successful try_pop, the next try_push succeeds, and the one after that
\* (no further pop) is refused again.
C5_OnePopFreesOneSlot ==
    \A i \in 1 .. Len(pushLog) :
        RefusedThenOnePop(i) =>
            /\ pushLog[i + 1].ok
            /\ (i + 2 <= Len(pushLog) /\ pushLog[i + 2].pops = pushLog[i + 1].pops)
                   => ~pushLog[i + 2].ok

C5_Witness ==
    \E i \in 1 .. Len(pushLog) :
        /\ RefusedThenOnePop(i)
        /\ i + 2 <= Len(pushLog)
        /\ pushLog[i + 2].pops = pushLog[i + 1].pops

\* a step of the producer inside try_push, before it has written anything
PushCheckStep == ppc \in {"full_head", "full_tail"} /\ ppc' # ppc
\* a step of the consumer inside try_pop, before it has read a slot
PopCheckStep == cpc \in {"empty_head", "empty_tail"} /\ cpc' # cpc

\* C6: try_push returns false only when ((head + 1) & mask) == tail at the
\* index values it read, try_pop returns false only when head == tail; a
\* failed try_push leaves head, tail and every slot unchanged, a failed
\* try_pop leaves those and the caller's output item unchanged.
C6_FailureOnlyWhenFullOrEmpty ==
    /\ [][(PushCheckStep /\ ppc' = "ret") =>
            (~pRet' /\ BitAnd(pFullHead' + 1, mask_) = pFullTail')]_vars
    /\ [][(ppc' = "ret" /\ ppc # "ret" /\ ~pRet') =>
            (PushCheckStep /\ BitAnd(pFullHead' + 1, mask_) = pFullTail')]_vars
    /\ [][PushCheckStep => UNCHANGED <<head_, tail_, buffer_>>]_vars
    /\ [][(cpc' = "ret" /\ cpc # "ret" /\ ~cRet') =>
            (PopCheckStep /\ cEmptyHead' = cEmptyTail')]_vars
    /\ [][PopCheckStep => UNCHANGED <<head_, tail_, buffer_, item>>]_vars

\* a refused push on a ring that holds elements, and a refused pop
C6_Witness ==
    /\ ppc = "ret" /\ ~pRet /\ pFullHead # pFullTail
    /\ cpc = "ret" /\ ~cRet /\ item = DefaultItem
    /\ Len(poppedSeq) >= 1

\* C8: when try_push fails in the ingress callback the event is dropped: it
\* is pushed once and never again, the callback returns at once, the dropped
\* counter goes up by one and the pushed counter stays, and the consumer
\* never pops that event.
C8_DroppedNotRetried ==
    /\ [](DroppedIds \cap PoppedIds = {})
    /\ [](\A i, j \in 1 .. Len(pushLog) :
              pushLog[i].id = pushLog[j].id => i = j)
    /\ [][(ppc = "ret" /\ ~pRet /\ ppc' # ppc) =>
            /\ events_dropped' = events_dropped + 1
            /\ events_pushed' = events_pushed
            /\ ppc' = "idle"]_vars

\* an event was dropped, counted, and the consumer has popped a later event
C8_Witness ==
    /\ ppc = "idle"
    /\ events_dropped >= 1
    /\ \E d \in DroppedIds : \E v \in PoppedIds : v > d

----------------------------------------------------------------------------
(* The process: UDPListener::listen feeding the ring through the ingress   *)
(* callback, print_consumer draining it into the book and the publisher,   *)
(* and the signal handler that sets the shutdown flag.  try_push and       *)
(* try_pop are single steps here; Spec has them step by step.              *)

\* datagrams that arrive in one run
MaxDatagrams == 3
\* capacity requested of the event queue
QueueRequested == 2

\* the symbols on the wire: none, and one instrument
Symbols == {"", "A"}

\* what parse_json_order_book_event returns for the well-formed datagrams
\* of a run: one resting order that is added, resized and removed, trades
\* at two prices, and the kinds the consumer does not act on
BookEvent(kind, symbol, sz) ==
    [NoEvent EXCEPT !.event_type = kind, !.symbol = symbol, !.order_id = 1,
                    !.side = "BID", !.price = 1, !.size = sz, !.timestamp = 5]

TradeEvent(symbol, trade_price) ==
    [NoEvent EXCEPT !.event_type = "TRADE", !.symbol = symbol,
                    !.trade_price = trade_price, !.trade_size = 3,
                    !.is_aggressor = TRUE, !.timestamp = 5]

Events ==
    {BookEvent("ADD_ORDER", s, 1) : s \in Symbols}
    \cup {BookEvent("MODIFY_ORDER", "A", 2), BookEvent("CANCEL_ORDER", "A", 0),
          BookEvent("DELETE_ORDER", "A", 0)}
    \cup {TradeEvent(s, p) : s \in Symbols, p \in {1, 2}}
    \cup {[NoEvent EXCEPT !.event_type = k, !.symbol = "A", !.timestamp = 5] :
              k \in {"QUOTE_UPDATE", "MARKET_STATUS", "UNKNOWN"}}

\* since the flag was set: one more of what `field` counts
After(field) ==
    IF shutdown_flag THEN [after_shutdown EXCEPT ![field] = @ + 1]
    ELSE after_shutdown

\* signal_handler: shutdown_flag.store(true)
signal_handler ==
    /\ ~shutdown_flag
    /\ shutdown_flag' = TRUE
    /\ after_shutdown' = [NotShutDown EXCEPT !.in_ring = size(head_, tail_, capacity_)]
    /\ UNCHANGED <<ctorVars, ringVars, prodVars, cbVars, consVars, histVars, rtVars>>
    /\ UNCHANGED <<orders_by_id, bid_levels, ask_levels, ret, added_order, trail>>
    /\ UNCHANGED <<lpc, datagrams, lrecv, kpc, event, order_books, published, total_events>>
    /\ UNCHANGED <<overwritten, auxVars>>

\* where listen goes after a receive: it breaks out of the loop on a
\* receive error other than EAGAIN / EWOULDBLOCK, and otherwise falls
\* through to the shutdown check at the end of the iteration
AfterReceive_BreakOnParseError(outcome) ==
    IF outcome \in {"error", "parse_error"} THEN "done" ELSE "check"

AfterReceive_BreakOnWouldBlock(outcome) ==
    IF outcome \in {"error", "eagain"} THEN "done" ELSE "check"

AfterReceive(outcome) == IF outcome = "error" THEN "done" ELSE "check"

\* if (shutdown_flag_ && *shutdown_flag_) break;
BreakIfShutdown_Never(flag) == "recv"

BreakIfShutdown(flag) == IF flag THEN "done" ELSE "recv"

\* a consumer that also leaves its loop once the listener has returned
WhileNotShutdown_OrListenerGone(flag) ==
    IF flag \/ lpc = "done" THEN "done" ELSE "pop"

\* while (!shutdown_flag.load())
WhileNotShutdown(flag) == IF flag THEN "done" ELSE "pop"

\* event.symbol.empty()
SymbolEmpty_Never(e) == FALSE

SymbolEmpty(e) == e.symbol = ""

\* what the listener leaves alone in every step
ListenFrame ==
    /\ UNCHANGED <<ctorVars, prodVars, consVars, histVars, rtVars>>
    /\ UNCHANGED <<capacity_, mask_, tail_, nextEvent>>
    /\ UNCHANGED <<orders_by_id, bid_levels, ask_levels, ret, added_order, trail>>
    /\ UNCHANGED <<shutdown_flag, kpc, event, order_books, published, total_events>>
    /\ UNCHANGED <<overwritten, auxVars>>

\* bytes_received > 0 and the datagram parses: the callback hands the event
\* to try_push and counts it as pushed or dropped
ReceiveEvent ==
    /\ lpc = "recv"
    /\ datagrams < MaxDatagrams
    /\ \E e \in Events :
           LET ok == ~full(head_, tail_, mask_)
           IN  /\ buffer_' = IF ok THEN WriteSlot(buffer_, head_, e) ELSE buffer_
               /\ head_' = IF ok THEN NextHead(head_, mask_) ELSE head_
               /\ events_pushed' = CountPushed(events_pushed, ok)
               /\ events_dropped' = CountDropped(events_dropped, ok)
               /\ lrecv' = IF ok THEN "pushed" ELSE "dropped"
    /\ datagrams' = datagrams + 1
    /\ after_shutdown' = IF shutdown_flag
                         THEN [after_shutdown EXCEPT !.recvs = @ + 1, !.pushes = @ + 1]
                         ELSE after_shutdown
    /\ lpc' = AfterReceive(lrecv')
    /\ ListenFrame

\* bytes_received > 0 and the parser throws (std::stod, std::stoul,
\* std::stoull on a malformed number): caught, logged, nothing is pushed
ReceiveMalformed ==
    /\ lpc = "recv"
    /\ datagrams < MaxDatagrams
    /\ datagrams' = datagrams + 1
    /\ lrecv' = "parse_error"
    /\ after_shutdown' = After("recvs")
    /\ lpc' = AfterReceive(lrecv')
    /\ UNCHANGED <<buffer_, head_, events_pushed, events_dropped>>
    /\ ListenFrame

\* bytes_received == 0: neither branch is taken
ReceiveNothing ==
    /\ lpc = "recv"
    /\ lrecv' = "zero"
    /\ after_shutdown' = After("recvs")
    /\ lpc' = AfterReceive(lrecv')
    /\ UNCHANGED <<buffer_, head_, events_pushed, events_dropped, datagrams>>
    /\ ListenFrame

\* bytes_received == -1 with EAGAIN or EWOULDBLOCK: sleep 100 microseconds
ReceiveWouldBlock ==
    /\ lpc = "recv"
    /\ lrecv' = "eagain"
    /\ after_shutdown' = After("recvs")
    /\ lpc' = AfterReceive(lrecv')
    /\ UNCHANGED <<buffer_, head_, events_pushed, events_dropped, datagrams>>
    /\ ListenFrame

\* bytes_received == -1 with any other errno: log and break
ReceiveError ==
    /\ lpc = "recv"
    /\ lrecv' = "error"
    /\ after_shutdown' = After("recvs")
    /\ lpc' = AfterReceive(lrecv')
    /\ UNCHANGED <<buffer_, head_, events_pushed, events_dropped, datagrams>>
    /\ ListenFrame

\* if (shutdown_flag_ && *shutdown_flag_) break; else the next iteration
ListenCheckShutdown ==
    /\ lpc = "check"
    /\ lpc' = BreakIfShutdown(shutdown_flag)
    /\ UNCHANGED <<buffer_, head_, events_pushed, events_dropped, datagrams, lrecv,
                   after_shutdown>>
    /\ ListenFrame

listen ==
    \/ ReceiveEvent
    \/ ReceiveMalformed
    \/ ReceiveNothing
    \/ ReceiveWouldBlock
    \/ ReceiveError
    \/ ListenCheckShutdown

\* what the consumer leaves alone outside the book
ConsumerFrame ==
    /\ UNCHANGED <<ctorVars, prodVars, cbVars, consVars, histVars, rtVars>>
    /\ UNCHANGED <<capacity_, mask_, buffer_, head_>>
    /\ UNCHANGED <<added_order, trail, shutdown_flag, lpc, datagrams, lrecv, overwritten>>
    /\ UNCHANGED auxVars

\* while (!shutdown_flag.load())
ConsumerLoopCond ==
    /\ kpc = "loop"
    /\ kpc' = WhileNotShutdown(shutdown_flag)
    /\ UNCHANGED <<tail_, orders_by_id, bid_levels, ask_levels, ret>>
    /\ UNCHANGED <<event, order_books, published, total_events, after_shutdown>>
    /\ ConsumerFrame

\* if (queue.try_pop(event)) { ... total_events++ ... } else yield
ConsumerTryPop ==
    /\ kpc = "pop"
    /\ IF empty(head_, tail_)
       THEN /\ kpc' = "loop"
            /\ UNCHANGED <<tail_, event, published, total_events, after_shutdown>>
       ELSE /\ event' = ReadSlot(buffer_, tail_)
            /\ tail_' = NextTail(tail_, mask_)
            /\ total_events' = total_events + 1
            /\ published' = <<>>
            /\ after_shutdown' = After("pops")
            /\ kpc' = "dispatch"
    /\ UNCHANGED <<orders_by_id, bid_levels, ask_levels, ret, order_books>>
    /\ ConsumerFrame

\* MulticastMessage(TRADE_UPDATE, symbol, timestamp, trade_to_json(price,
\* size, aggressor_side)) as handed to send_message
TradeUpdate(symbol, price, sz, aggressor_side, timestamp) ==
    [type |-> "TRADE_UPDATE", symbol |-> symbol, timestamp |-> timestamp,
     price |-> price, size |-> sz, aggressor_side |-> aggressor_side]

\* MulticastMessage(ORDER_BOOK_UPDATE, symbol, timestamp,
\* order_book_to_json(book)): the best bid and ask of the book it is given
OrderBookUpdate_NoBid(symbol, best_bid, best_ask) ==
    [type |-> "ORDER_BOOK_UPDATE", symbol |-> symbol,
     best_bid |-> <<0, 0>>, best_ask |-> best_ask]

OrderBookUpdate(symbol, best_bid, best_ask) ==
    [type |-> "ORDER_BOOK_UPDATE", symbol |-> symbol,
     best_bid |-> best_bid, best_ask |-> best_ask]

\* the switch on event.event_type; the book is left alone by every case
\* that calls none of its mutators
DispatchSwitch_TradeAdds(e) ==
    CASE e.event_type = "ADD_ORDER" ->
             add_order(e.order_id, e.side, e.price, e.size)
      [] e.event_type = "MODIFY_ORDER" ->
             modify_order(e.order_id, e.size)
      [] e.event_type \in {"CANCEL_ORDER", "DELETE_ORDER"} ->
             cancel_order(e.order_id)
      [] e.event_type = "TRADE" ->
             add_order(1, "ASK", e.trade_price, e.trade_size)
      [] OTHER ->
             /\ UNCHANGED <<orders_by_id, bid_levels, ask_levels, ret>>
             /\ UNCHANGED <<ctorVars, ringVars, prodVars, cbVars, consVars,
                            histVars, rtVars>>

DispatchSwitch(e) ==
    CASE e.event_type = "ADD_ORDER" ->
             add_order(e.order_id, e.side, e.price, e.size)
      [] e.event_type = "MODIFY_ORDER" ->
             modify_order(e.order_id, e.size)
      [] e.event_type \in {"CANCEL_ORDER", "DELETE_ORDER"} ->
             cancel_order(e.order_id)
      [] OTHER ->
             /\ UNCHANGED <<orders_by_id, bid_levels, ask_levels, ret>>
             /\ UNCHANGED <<ctorVars, ringVars, prodVars, cbVars, consVars,
                            histVars, rtVars>>

\* the publications of one event: the trade inside case TRADE, then the
\* snapshot of the book after the switch
Publications_SnapshotFirst(e, best_bid, best_ask) ==
    <<OrderBookUpdate(e.symbol, best_bid, best_ask)>>
    \o (IF e.event_type = "TRADE"
        THEN <<TradeUpdate(e.symbol, e.trade_price, e.trade_size,
                           IF e.is_aggressor THEN "BID" ELSE "ASK", e.timestamp)>>
        ELSE <<>>)

Publications(e, best_bid, best_ask) ==
    (IF e.event_type = "TRADE"
     THEN <<TradeUpdate(e.symbol, e.trade_price, e.trade_size,
                        IF e.is_aggressor THEN "BID" ELSE "ASK", e.timestamp)>>
     ELSE <<>>)
    \o <<OrderBookUpdate(e.symbol, best_bid, best_ask)>>

\* the body of print_consumer after a successful pop: an event without a
\* symbol is skipped; otherwise order_books[event.symbol] (created when
\* absent), the switch, publish_order_book_update
ConsumerDispatch ==
    /\ kpc = "dispatch"
    /\ IF SymbolEmpty(event)
       THEN /\ UNCHANGED <<orders_by_id, bid_levels, ask_levels, ret>>
            /\ UNCHANGED <<order_books, published>>
       ELSE /\ order_books' = order_books \cup {event.symbol}
            /\ DispatchSwitch(event)
            /\ published' = Publications(event, get_best_bid', get_best_ask')
    /\ after_shutdown' = After("dispatches")
    /\ kpc' = "loop"
    /\ UNCHANGED <<tail_, event, total_events>>
    /\ ConsumerFrame

print_consumer ==
    \/ ConsumerLoopCond
    \/ ConsumerTryPop
    \/ ConsumerDispatch

\* main: the queue is built, the consumer thread is started, the listener
\* runs in the main thread; no book exists yet
InitPipeline ==
    /\ requested = QueueRequested
    /\ ctor_pc = "constructed"
    /\ actual_capacity = NextPow2(1, QueueRequested)
    /\ capacity_ = NextPow2(1, QueueRequested)
    /\ mask_ = MaskOf(NextPow2(1, QueueRequested))
    /\ buffer_ = [i \in DOMAIN FreshBuffer(NextPow2(1, QueueRequested)) |-> NoEvent]
    /\ head_ = 0
    /\ tail_ = 0
    /\ InitThreads
    /\ InitRoundTripOff
    /\ orders_by_id = <<>> /\ bid_levels = <<>> /\ ask_levels = <<>>
    /\ ret = FALSE /\ added_order = <<>> /\ trail = NoTrail
    /\ shutdown_flag = FALSE
    /\ lpc = "recv" /\ datagrams = 0 /\ lrecv = "none"
    /\ kpc = "loop" /\ event = NoEvent
    /\ order_books = {} /\ published = <<>> /\ total_events = 0
    /\ after_shutdown = NotShutDown
    /\ overwritten = <<>>
    /\ InitAuxIdle

NextPipeline ==
    \/ signal_handler
    \/ listen
    \/ print_consumer

SpecPipeline == InitPipeline /\ [][NextPipeline]_vars

\* both threads are scheduled for as long as they can take a step
SpecPipelineFair ==
    SpecPipeline /\ WF_vars(listen) /\ WF_vars(print_consumer)

----------------------------------------------------------------------------
(* Claims about the process *)

\* the consumer has finished with the event it dequeued last
HandledEvent == total_events > 0 /\ kpc \in {"loop", "pop", "done"}

\* the step that dispatches the dequeued event
DispatchStep == kpc = "dispatch" /\ kpc' # kpc

\* the kinds whose case calls a mutator of the book
BookKinds == {"ADD_ORDER", "MODIFY_ORDER", "CANCEL_ORDER", "DELETE_ORDER"}

\* the messages of the given type among the publications of the last event
OfType(type) == SelectSeq(published, LAMBDA m : m.type = type)

\* C21: dispatching a Trade, QuoteUpdate, MarketStatus or Unknown event
\* leaves the id index and both ladders, with every level, as they were.
C21_OtherKindsLeaveBook ==
    [][(DispatchStep /\ event.event_type \notin BookKinds)
          => UNCHANGED <<orders_by_id, bid_levels, ask_levels>>]_vars

\* a trade has been dispatched against a book that holds an order
C21_Witness ==
    /\ HandledEvent
    /\ event.event_type = "TRADE" /\ event.symbol = "A"
    /\ published # <<>>
    /\ 1 \in DOMAIN orders_by_id
    /\ bid_levels # <<>>

\* C22: a dequeued Trade event with a symbol gets exactly one trade
\* publication, with the event's symbol, trade_price, trade_size and
\* timestamp, issued before the order-book snapshot of the same event.
C22_TradePublishedOnceBeforeSnapshot ==
    (HandledEvent /\ event.event_type = "TRADE" /\ event.symbol # "")
        => /\ Len(OfType("TRADE_UPDATE")) = 1
           /\ Len(published) = 2
           /\ published[1].type = "TRADE_UPDATE"
           /\ published[1].symbol = event.symbol
           /\ published[1].price = event.trade_price
           /\ published[1].size = event.trade_size
           /\ published[1].timestamp = event.timestamp
           /\ published[2].type = "ORDER_BOOK_UPDATE"
           /\ published[2].symbol = event.symbol

\* the trade at price 2 has been published
C22_Witness ==
    /\ HandledEvent
    /\ event = TradeEvent("A", 2)
    /\ published[1] = TradeUpdate("A", 2, 3, "BID", 5)

\* C23: an event without a symbol is discarded: it creates and changes no
\* book and causes no publication.
C23_EmptySymbolDiscarded ==
    [][(DispatchStep /\ event.symbol = "")
          => /\ UNCHANGED <<orders_by_id, bid_levels, ask_levels, order_books>>
             /\ "" \notin order_books'
             /\ published' = <<>>]_vars

\* an add without a symbol has been dequeued and nothing came of it
C23_Witness ==
    /\ HandledEvent
    /\ event = BookEvent("ADD_ORDER", "", 1)
    /\ order_books = {} /\ orders_by_id = <<>> /\ published = <<>>

\* C24: after an Add, Modify, Cancel or Delete that the book applies there
\* is exactly one order-book snapshot for the event's symbol, and it shows
\* the best bid and ask of the book after the mutation.
C24_SnapshotAfterMutation ==
    (HandledEvent /\ event.symbol # "" /\ event.event_type \in BookKinds /\ ret)
        => /\ Len(OfType("ORDER_BOOK_UPDATE")) = 1
           /\ OfType("ORDER_BOOK_UPDATE")[1].symbol = event.symbol
           /\ OfType("ORDER_BOOK_UPDATE")[1].best_bid = get_best_bid
           /\ OfType("ORDER_BOOK_UPDATE")[1].best_ask = get_best_ask

\* the snapshot of an applied add shows the new best bid
C24_Witness ==
    /\ HandledEvent
    /\ event.event_type = "ADD_ORDER" /\ ret
    /\ Len(published) = 1
    /\ published[1].symbol = "A"
    /\ published[1].best_bid = <<1, 1>> /\ published[1].best_ask = <<0, 0>>

\* the per-event errors: the parser threw, try_push found the ring full
ListenerErrors == {"parse_error", "dropped"}

\* the book turned the event down, or the switch has no case for its kind
Rejected ==
    /\ DispatchStep
    /\ event.symbol # ""
    /\ \/ event.event_type \in BookKinds /\ ~ret'
       \/ event.event_type = "UNKNOWN"

\* C25: a per-event error (the parser throws, try_push fails, the book
\* rejects a duplicate add or an unknown id) stops neither loop: the
\* listener goes on to its shutdown check and, the flag not set, to the next
\* receive; the consumer goes back to its loop condition and, the flag not
\* set, to the next try_pop.
C25_LoopsSurviveErrors ==
    [][/\ (lpc = "recv" /\ lrecv' \in ListenerErrors /\ lpc' # lpc) => lpc' = "check"
       /\ (lpc = "check" /\ lrecv \in ListenerErrors /\ lpc' # lpc /\ ~shutdown_flag)
              => lpc' = "recv"
       /\ Rejected => kpc' = "loop"
       /\ (kpc = "loop" /\ kpc' # kpc /\ ~shutdown_flag) => kpc' = "pop"]_vars

\* a datagram was dropped, a later one was pushed, dequeued and applied
C25_Witness ==
    /\ events_dropped = 1 /\ datagrams = 3 /\ lrecv = "pushed"
    /\ HandledEvent /\ total_events = 2
    /\ event.event_type = "ADD_ORDER" /\ ret
    /\ 1 \in DOMAIN orders_by_id
    /\ ~shutdown_flag

\* C26: every rejection at the consumer (duplicate add, modify or cancel of
\* an unknown id, kind Unknown) increments an error counter.  The counters
\* of the process are total_events, events_pushed and events_dropped.
C26_RejectionCounted ==
    [][Rejected => \/ total_events' = total_events + 1
                   \/ events_dropped' = events_dropped + 1
                   \/ events_pushed' = events_pushed + 1]_vars

\* both threads have returned
Terminated == lpc = "done" /\ kpc = "done"

\* C27: once the shutdown flag is set each loop exits after at most one
\* further iteration (at most one more receive and push, at most one more
\* pop and dispatch), and both threads terminate.
C27_ShutdownWithinOneIteration ==
    /\ [](/\ after_shutdown.recvs <= 1 /\ after_shutdown.pushes <= 1
          /\ after_shutdown.pops <= 1 /\ after_shutdown.dispatches <= 1)
    /\ (shutdown_flag ~> Terminated)

\* both threads returned after one more push and one more pop each
C27_Witness ==
    /\ shutdown_flag /\ Terminated
    /\ after_shutdown.pushes = 1 /\ after_shutdown.pops = 1
    /\ after_shutdown.dispatches = 1

\* C28: the events that are in the ring when the shutdown flag is set are
\* dequeued and dispatched before the consumer returns.
C28_DrainsBeforeReturn ==
    kpc = "done" => /\ after_shutdown.pops >= after_shutdown.in_ring
                    /\ after_shutdown.dispatches >= after_shutdown.in_ring

\* the ring's contents and counters are not touched by the step
NothingPushed == UNCHANGED <<buffer_, head_, events_pushed, events_dropped>>

\* C29: on EAGAIN / EWOULDBLOCK the loop pauses and goes on; on any other
\* receive error it exits without pushing; apart from that it exits only
\* when the shutdown flag is set.
C29_ReceiveErrors ==
    [][/\ (lpc = "recv" /\ lpc' # lpc /\ lrecv' = "eagain")
              => lpc' = "check" /\ NothingPushed
       /\ (lpc = "check" /\ lpc' # lpc /\ lrecv = "eagain" /\ ~shutdown_flag)
              => lpc' = "recv"
       /\ (lpc = "recv" /\ lpc' # lpc /\ lrecv' = "error")
              => lpc' = "done" /\ NothingPushed
       /\ (lpc # "done" /\ lpc' = "done")
              => lrecv' = "error" \/ shutdown_flag]_vars

\* the loop is back at its receive after an EAGAIN
C29_Witness ==
    /\ lpc = "recv" /\ lrecv = "eagain" /\ ~shutdown_flag
    /\ events_pushed >= 1

----------------------------------------------------------------------------
(* The ring under the memory orders of its index accesses.  The element    *)
(* array is plain memory: a read of a slot is ordered after the write that *)
(* filled it only if the reader's load of the writer's index is an acquire *)
(* load that reads from the writer's release store.  Without that edge the *)
(* read races with the write and may return what the slot held before.     *)

\* empty(): head_.load(std::memory_order_relaxed), the consumer's load of
\* the producer index
head_load_order == "relaxed"
\* full(): tail_.load(std::memory_order_relaxed), the producer's load of the
\* consumer index
tail_load_order == "relaxed"
\* push(): head_.store(..., std::memory_order_release)
head_store_order == "release"
\* pop(): tail_.store(..., std::memory_order_release)
tail_store_order == "release"

\* the load synchronizes with the store whose value it reads
SynchronizesWith(store_order, load_order) ==
    store_order = "release" /\ load_order = "acquire"

\* what item = buffer_[tail] can yield in pop()
SlotRead(tail) ==
    IF SynchronizesWith(head_store_order, head_load_order)
    THEN {ReadSlot(buffer_, tail)}
    ELSE {ReadSlot(buffer_, tail), ReadSlot(overwritten, tail)}

RelaxedFrame ==
    /\ UNCHANGED <<ctorVars, prodVars, consVars, rtVars>>
    /\ UNCHANGED <<capacity_, mask_>>
    /\ UNCHANGED <<orders_by_id, bid_levels, ask_levels, ret, added_order, trail>>
    /\ UNCHANGED <<shutdown_flag, lpc, datagrams, lrecv,
                   kpc, event, order_books, published, total_events, after_shutdown>>
    /\ UNCHANGED auxVars

\* the callback's try_push of the next event
RelaxedTryPush ==
    /\ nextEvent < MaxEvents
    /\ nextEvent' = nextEvent + 1
    /\ LET ok == ~full(head_, tail_, mask_)
       IN  /\ overwritten' = IF ok THEN WriteSlot(overwritten, head_, ReadSlot(buffer_, head_))
                             ELSE overwritten
           /\ buffer_' = IF ok THEN WriteSlot(buffer_, head_, nextEvent + 1) ELSE buffer_
           /\ head_' = IF ok THEN NextHead(head_, mask_) ELSE head_
           /\ events_pushed' = CountPushed(events_pushed, ok)
           /\ events_dropped' = CountDropped(events_dropped, ok)
           /\ pushLog' = Append(pushLog, LogEntry(nextEvent + 1, ok, Len(poppedSeq)))
    /\ UNCHANGED <<tail_, poppedSeq>>
    /\ RelaxedFrame

\* the consumer's try_pop when it has seen the producer index advanced
RelaxedTryPop ==
    /\ ~empty(head_, tail_)
    /\ \E v \in SlotRead(tail_) : poppedSeq' = Append(poppedSeq, v)
    /\ tail_' = NextTail(tail_, mask_)
    /\ UNCHANGED <<buffer_, head_, overwritten, events_pushed, events_dropped,
                   nextEvent, pushLog>>
    /\ RelaxedFrame

InitRelaxed ==
    /\ InitRing(QueueRequested)
    /\ InitThreads
    /\ InitRoundTripOff
    /\ orders_by_id = NoBook /\ bid_levels = NoBook /\ ask_levels = NoBook
    /\ ret = FALSE /\ added_order = <<>> /\ trail = NoTrail
    /\ shutdown_flag = FALSE
    /\ lpc = "off" /\ datagrams = 0 /\ lrecv = "none"
    /\ kpc = "off" /\ event = NoEvent
    /\ order_books = {} /\ published = <<>> /\ total_events = 0
    /\ after_shutdown = NotShutDown
    /\ overwritten = FreshBuffer(NextPow2(1, QueueRequested))
    /\ InitAuxIdle

NextRelaxed ==
    \/ RelaxedTryPush
    \/ RelaxedTryPop

SpecRelaxed == InitRelaxed /\ [][NextRelaxed]_vars

\* C30: try_push loads the consumer index and try_pop the producer index
\* with acquire ordering, each paired with the peer's release store, so a
\* consumer that observes the advanced producer index observes the element
\* written before it: every popped value is the value pushed into that slot.
C30_PopObservesWrittenElement ==
    /\ Len(poppedSeq) <= Len(PushedSeq(pushLog))
    /\ \A i \in 1 .. Len(poppedSeq) :
           i <= Len(PushedSeq(pushLog)) => poppedSeq[i] = PushedSeq(pushLog)[i]

----------------------------------------------------------------------------
(* The stamps of one event on its way from the socket to the consumer, and *)
(* the latencies print_consumer computes from them.                        *)

\* width of uint64_t in the model
StampBits == 3
U64Mod == 2 ^ StampBits
\* steady_clock counts in a signed 64-bit rep: its readings are below 2^63
ClockReadings == 0 .. (2 ^ (StampBits - 1)) - 1
\* exchange_mono_ns is std::stoull of a field of the datagram
ExchangeStamps == 0 .. U64Mod - 1

\* steady_clock::now() never goes back
Now == {t \in ClockReadings : t >= stamps.clock}

\* a difference taken without the test that the later stamp is not smaller
StageLatency_Unclamped(earlier, later) == (later + U64Mod - earlier) % U64Mod

\* (later >= earlier) ? (later - earlier) : 0ULL
StageLatency(earlier, later) == IF later >= earlier THEN later - earlier ELSE 0

\* (event.exchange_mono_ns > 0 && event.udp_rx_mono_ns >= event.exchange_mono_ns)
\*     ? (event.udp_rx_mono_ns - event.exchange_mono_ns) : 0ULL
ExchToUdp(exchange_mono_ns, udp_rx_mono_ns) ==
    IF exchange_mono_ns > 0 THEN StageLatency(exchange_mono_ns, udp_rx_mono_ns) ELSE 0

LatencyFrame ==
    /\ UNCHANGED <<ctorVars, ringVars, prodVars, cbVars, consVars, histVars, rtVars>>
    /\ UNCHANGED <<orders_by_id, bid_levels, ask_levels, ret, added_order, trail>>
    /\ UNCHANGED <<shutdown_flag, lpc, datagrams, lrecv, kpc, event, order_books,
                   published, total_events, after_shutdown, overwritten>>
    /\ UNCHANGED <<price_level, books, book_symbol>>

\* listen: the event is parsed, then stamped with the receive time
StampReceive ==
    /\ stamps.pc = "recv"
    /\ \E x \in ExchangeStamps, now \in Now :
           stamps' = [stamps EXCEPT !.pc = "callback", !.clock = now,
                                    !.exchange_mono_ns = x, !.udp_rx_mono_ns = now]
    /\ LatencyFrame

\* the callback: e.enqueued_mono_ns = enq_ns, then try_push(e)
StampEnqueue ==
    /\ stamps.pc = "callback"
    /\ \E now \in Now :
           stamps' = [stamps EXCEPT !.pc = "queued", !.clock = now,
                                    !.enqueued_mono_ns = now]
    /\ LatencyFrame

\* print_consumer after try_pop: deq_ns and the four latencies
StampDequeue ==
    /\ stamps.pc = "queued"
    /\ \E now \in Now :
           LET exch_to_udp == ExchToUdp(stamps.exchange_mono_ns, stamps.udp_rx_mono_ns)
               udp_to_queue == StageLatency(stamps.udp_rx_mono_ns, stamps.enqueued_mono_ns)
               queue_to_strategy == StageLatency(stamps.enqueued_mono_ns, now)
           IN  stamps' = [stamps EXCEPT
                   !.pc = "done", !.clock = now, !.deq_ns = now,
                   !.exch_to_udp = exch_to_udp,
                   !.udp_to_queue = udp_to_queue,
                   !.queue_to_strategy = queue_to_strategy,
                   !.total_latency =
                       (exch_to_udp + udp_to_queue + queue_to_strategy) % U64Mod]
    /\ LatencyFrame

\* an event arrives at some reading of the clock
InitLatency ==
    /\ InitRing(1)
    /\ InitThreads
    /\ InitRoundTripOff
    /\ orders_by_id = NoBook /\ bid_levels = NoBook /\ ask_levels = NoBook
    /\ ret = FALSE /\ added_order = <<>> /\ trail = NoTrail
    /\ InitThreadsOff
    /\ price_level = <<>> /\ books = <<>> /\ book_symbol = ""
    /\ \E t \in ClockReadings :
           stamps = [pc |-> "recv", clock |-> t, exchange_mono_ns |-> 0,
                     udp_rx_mono_ns |-> 0, enqueued_mono_ns |-> 0, deq_ns |-> 0,
                     exch_to_udp |-> 0, udp_to_queue |-> 0,
                     queue_to_strategy |-> 0, total_latency |-> 0]

NextLatency ==
    \/ StampReceive
    \/ StampEnqueue
    \/ StampDequeue

SpecLatency == InitLatency /\ [][NextLatency]_vars

\* C31: for a dispatched event udp_rx_mono_ns <= enqueued_mono_ns <= deq_ns;
\* each stage latency is the later stamp minus the earlier one, 0 when the
\* later one is smaller, and exchange->udp is 0 when exchange_mono_ns is 0;
\* the total is the sum of the three stage latencies.
C31_StampsAndLatencies ==
    stamps.pc = "done"
        => /\ stamps.udp_rx_mono_ns <= stamps.enqueued_mono_ns
           /\ stamps.enqueued_mono_ns <= stamps.deq_ns
           /\ stamps.exch_to_udp =
                  IF stamps.exchange_mono_ns = 0 THEN 0
                  ELSE Max(stamps.udp_rx_mono_ns - stamps.exchange_mono_ns, 0)
           /\ stamps.udp_to_queue = stamps.enqueued_mono_ns - stamps.udp_rx_mono_ns
           /\ stamps.queue_to_strategy = stamps.deq_ns - stamps.enqueued_mono_ns
           /\ stamps.total_latency =
                  stamps.exch_to_udp + stamps.udp_to_queue + stamps.queue_to_strategy

\* an exchange stamp later than the receive stamp: that stage is clamped
C31_Witness ==
    /\ stamps.pc = "done"
    /\ stamps.exchange_mono_ns > stamps.udp_rx_mono_ns
    /\ stamps.exch_to_udp = 0
    /\ stamps.udp_to_queue = 1 /\ stamps.queue_to_strategy = 1
    /\ stamps.total_latency = 2

----------------------------------------------------------------------------
(* One PriceLevel, its add_order / modify_order / remove_order called      *)
(* directly, in any order.                                                 *)

\* entries one level holds in a run
MaxQueue == 3

LevelFrame ==
    /\ UNCHANGED <<ctorVars, ringVars, prodVars, cbVars, consVars, histVars, rtVars>>
    /\ UNCHANGED <<orders_by_id, bid_levels, ask_levels, ret, added_order>>
    /\ UNCHANGED <<shutdown_flag, lpc, datagrams, lrecv, kpc, event, order_books,
                   published, total_events, after_shutdown, overwritten>>
    /\ UNCHANGED <<books, book_symbol, stamps>>

\* level.add_order(order_id, size, timestamp)
LevelAdd ==
    /\ Len(price_level.order_queue) < MaxQueue
    /\ \E order_id \in OrderIds, sz \in Sizes :
           /\ price_level' = PriceLevel_add_order(price_level, order_id, sz)
           /\ trail' = Trail("add", order_id, <<>>, "", <<>>)
    /\ LevelFrame

\* level.modify_order(order_id, new_size)
LevelModify ==
    /\ \E order_id \in OrderIds, sz \in Sizes :
           /\ IF order_id \in DOMAIN price_level.order_lookup
              THEN \E pos \in Deref(price_level, price_level.order_lookup[order_id]) :
                       price_level' = PriceLevel_modify_order(price_level, order_id, sz, pos)
              ELSE price_level' = price_level
           /\ trail' = Trail("modify", order_id, <<>>, "", <<>>)
    /\ LevelFrame

\* level.remove_order(order_id)
LevelRemove ==
    /\ \E order_id \in OrderIds :
           /\ IF order_id \in DOMAIN price_level.order_lookup
              THEN \E pos \in Deref(price_level, price_level.order_lookup[order_id]) :
                       price_level' = PriceLevel_remove_order(price_level, order_id, pos)
              ELSE price_level' = price_level
           /\ trail' = Trail("remove", order_id, <<>>, "", <<>>)
    /\ LevelFrame

\* PriceLevel(double p): no entries
InitLevel ==
    /\ InitRing(1)
    /\ InitThreads
    /\ InitRoundTripOff
    /\ orders_by_id = NoBook /\ bid_levels = NoBook /\ ask_levels = NoBook
    /\ ret = FALSE /\ added_order = <<>> /\ trail = NoTrail
    /\ InitThreadsOff
    /\ price_level = PriceLevel(1)
    /\ books = <<>> /\ book_symbol = "" /\ stamps = <<>>

NextLevel ==
    \/ LevelAdd
    \/ LevelModify
    \/ LevelRemove

SpecLevel == InitLevel /\ [][NextLevel]_vars

\* the ids of the entries in the level's FIFO list
QueueIds == {price_level.order_queue[i].order_id :
                 i \in 1 .. Len(price_level.order_queue)}

\* C32: after any sequence of add, modify and remove on a level the lookup
\* maps exactly the ids of the entries in the list and each id's handle
\* designates the entry with that id, so a modify by id changes no entry of
\* another id and a remove by id takes out an entry of that id and no other.
C32_LookupDesignatesOwnEntry ==
    [][/\ DOMAIN price_level'.order_lookup =
              {price_level'.order_queue[i].order_id :
                   i \in 1 .. Len(price_level'.order_queue)}
       /\ trail'.op = "modify"
              => \A i \in 1 .. Len(price_level.order_queue) :
                     price_level'.order_queue[i] # price_level.order_queue[i]
                         => price_level.order_queue[i].order_id = trail'.order_id
       /\ (trail'.op = "remove" /\ trail'.order_id \in DOMAIN price_level.order_lookup)
              => \E i \in 1 .. Len(price_level.order_queue) :
                     /\ price_level.order_queue[i].order_id = trail'.order_id
                     /\ price_level'.order_queue = RemoveAt(price_level.order_queue, i)]_vars

\* C33: an add with an order id already present in the level is rejected:
\* the FIFO list, the lookup and the aggregate size stay as they were.
C33_DuplicateLevelAddRejected ==
    [][(trail'.op = "add" /\ trail'.order_id \in QueueIds)
          => price_level' = price_level]_vars

----------------------------------------------------------------------------
(* Further claims about the ring with producer and consumer interleaved *)

\* the slots whose value is published and not yet consumed
Occupied ==
    {BitAnd(tail_ + k, mask_) : k \in 0 .. size(head_, tail_, capacity_) - 1}

\* the producer is about to execute buffer_[head] = item
AboutToWrite == ppc = "write_slot"

\* the consumer is about to execute item = buffer_[tail], or has read the
\* slot and not yet advanced tail_
ReadingSlot == cpc \in {"read_slot", "store_tail"}

\* C34: under any interleaving the producer never writes the slot the
\* consumer is reading, and never overwrites a slot that is published (head
\* advanced past it) and not yet consumed (tail not advanced past it).
C34_NoWriteToUnconsumedSlot ==
    AboutToWrite =>
        /\ ReadingSlot => pHead # cTail
        /\ pHead \notin Occupied

\* the producer writes one slot while the consumer reads another
C34_Witness ==
    /\ AboutToWrite /\ cpc = "read_slot"
    /\ size(head_, tail_, capacity_) = 2
    /\ pHead # cTail

\* the thread is between the call of try_push / try_pop and its return
InTryPush == ppc \in {"full_head", "full_tail", "load_head", "write_slot", "store_head"}
InTryPop == cpc \in {"empty_head", "empty_tail", "load_tail", "read_slot", "store_tail"}

\* the try_push calls that have returned true
PushesDone == Len(PushedSeq(pushLog))

\* C36 as stated: at every point events_pushed + events_dropped is the
\* number of events handed to the callback, the number popped never exceeds
\* the number pushed, and outside ring operations pushed minus popped is the
\* ring's element count.
C36_CountersAtEveryPoint ==
    /\ events_pushed + events_dropped = nextEvent
    /\ Len(poppedSeq) <= events_pushed
    /\ (~InTryPush /\ ~InTryPop)
           => events_pushed - Len(poppedSeq) = size(head_, tail_, capacity_)

\* C36, amended: the counters cover the callbacks that have returned (the
\* event in hand is counted only after try_push); the number popped never
\* exceeds the number of try_push calls that returned true, and outside ring
\* operations that number minus the number popped is the ring's element count.
C36_CountersBetweenCallbacks ==
    /\ events_pushed + events_dropped = nextEvent - (IF ppc = "idle" THEN 0 ELSE 1)
    /\ events_pushed = PushesDone - (IF ppc = "ret" /\ pRet THEN 1 ELSE 0)
    /\ Len(poppedSeq) <= PushesDone
    /\ (~InTryPush /\ ~InTryPop)
           => PushesDone - Len(poppedSeq) = size(head_, tail_, capacity_)

\* an event has been popped that events_pushed does not count yet
C36_Witness ==
    /\ ppc = "ret" /\ pRet
    /\ cpc = "idle"
    /\ Len(poppedSeq) = 2 /\ events_pushed = 1 /\ events_dropped = 1
    /\ size(head_, tail_, capacity_) = 0

\* C40: a ring of capacity C holds at most C - 1 elements; constructed with
\* requested capacity 1 (capacity 1, mask 0) it is permanently full and
\* empty: every try_push and every try_pop returns false.
C40_CapacityOneNeverHolds ==
    /\ size(head_, tail_, capacity_) <= capacity_ - 1
    /\ requested = 1
           => /\ capacity_ = 1 /\ mask_ = 0
              /\ head_ = 0 /\ tail_ = 0
              /\ \A i \in 1 .. Len(pushLog) : ~pushLog[i].ok
              /\ ppc = "ret" => ~pRet
              /\ cpc = "ret" => ~cRet
              /\ events_pushed = 0 /\ poppedSeq = <<>>

\* on the ring of capacity 1 two pushes were refused and a pop has failed
C40_Witness ==
    /\ requested = 1
    /\ events_dropped = 2
    /\ cpc = "ret" /\ ~cRet

----------------------------------------------------------------------------
(* Further claims about the process *)

\* the consumer thread is scheduled for as long as it can take a step;
\* nothing is assumed of the listener
SpecConsumerFair == SpecPipeline /\ WF_vars(print_consumer)

\* the events the consumer has dequeued and dispatched
Dispatched == total_events - (IF kpc = "dispatch" THEN 1 ELSE 0)

\* C35: if the shutdown flag is never set and the consumer is scheduled
\* fairly, every event successfully pushed is eventually popped and
\* dispatched, and exactly once: the n-th successful push is followed by the
\* n-th dispatch, and there are never more pops than pushes.
C35_PushedEventuallyDispatched ==
    /\ [](Dispatched <= total_events /\ total_events <= events_pushed)
    /\ \A n \in 1 .. MaxDatagrams :
           (events_pushed >= n) ~> (shutdown_flag \/ Dispatched >= n)

\* every pushed event has been dispatched, the flag never set
C35_Witness ==
    /\ ~shutdown_flag
    /\ events_pushed >= 2
    /\ Dispatched = events_pushed
    /\ kpc = "loop"

\* C37: the consumer loop's only exit is the shutdown flag: after the
\* listener has left its loop on a fatal receive error with the flag unset
\* the consumer keeps polling the ring, and the process (main joins the
\* consumer thread) does not terminate until the flag is set.
C37_ConsumerExitsOnlyOnShutdown ==
    /\ [](kpc = "done" => shutdown_flag)
    /\ [](Terminated => shutdown_flag)
    /\ (lpc = "done" /\ ~shutdown_flag) ~> (kpc = "pop" \/ shutdown_flag)

\* the listener is gone after a receive error, the consumer has handled
\* what was queued and is polling the empty ring
C37_Witness ==
    /\ lpc = "done" /\ lrecv = "error" /\ ~shutdown_flag
    /\ kpc = "pop" /\ total_events >= 1
    /\ empty(head_, tail_)

----------------------------------------------------------------------------
(* Further claims about the book *)

\* C39: after any sequence of add / modify / cancel every entry of every
\* price level belongs to an order of the id index whose side and price are
\* the level's and whose size is the entry's: no orphan entry, no size that
\* differs between record and level.
C39_EntriesMatchRecords ==
    \A l \in Ladders : \A p \in DOMAIN l[2] :
        \A i \in 1 .. Len(l[2][p].order_queue) :
            LET entry == l[2][p].order_queue[i]
            IN  /\ entry.order_id \in DOMAIN orders_by_id
                /\ orders_by_id[entry.order_id].side = l[1]
                /\ orders_by_id[entry.order_id].price = p
                /\ orders_by_id[entry.order_id].size = entry.size

----------------------------------------------------------------------------
(* The books of several symbols                                            *)
(*                                                                         *)
(* order_books is a std::map<std::string, OrderBook>.  The book that the   *)
(* reference `book` is bound to is held in orders_by_id, bid_levels and    *)
(* ask_levels; book_symbol is its key, and books maps every other key of   *)
(* the map to its book <<orders_by_id, bid_levels, ask_levels>>.           *)

BookSymbols == {"A", "B"}

\* the events of a run over two symbols: orders 1 and 2 resting on the bid
\* or the ask at one price, added, resized and removed
SymbolEvents ==
    {[NoEvent EXCEPT !.event_type = k, !.symbol = s, !.order_id = id,
                     !.side = sd, !.price = 1, !.size = 1, !.timestamp = 5] :
        k \in {"ADD_ORDER", "CANCEL_ORDER"}, s \in BookSymbols,
        id \in OrderIds, sd \in {"BID", "ASK"}}
    \cup {[NoEvent EXCEPT !.event_type = "MODIFY_ORDER", !.symbol = s,
                          !.order_id = 1, !.side = "BID", !.price = 1,
                          !.size = 0, !.timestamp = 5] : s \in BookSymbols}

\* OrderBook() = default, as operator[] constructs it for an absent key
NewBook == <<<<>>, <<>>, <<>>>>

\* a lookup that finds the same book whatever the symbol
MapKey_Shared(symbol) == "A"

\* the key of order_books[event.symbol]
MapKey(symbol) == symbol

\* the map with the bound book written through the reference
StoredBooks ==
    IF book_symbol = "" THEN books
    ELSE [k \in DOMAIN books \cup {book_symbol} |->
             IF k = book_symbol THEN <<orders_by_id, bid_levels, ask_levels>>
             ELSE books[k]]

\* std::map::operator[]: the mapped book, default-constructed when absent
MapLookup(map, key) == IF key \in DOMAIN map THEN map[key] ELSE NewBook

\* what a step on the books of several symbols leaves alone
SymbolsFrame ==
    /\ UNCHANGED <<added_order, trail>>
    /\ UNCHANGED <<shutdown_flag, lpc, datagrams, lrecv, published,
                   after_shutdown, overwritten>>
    /\ UNCHANGED <<price_level, stamps>>

\* a popped event with a symbol: OrderBook& book = order_books[event.symbol]
SymbolLookup ==
    /\ kpc = "dispatch"
    /\ total_events < MaxSymbolEvents
    /\ \E e \in SymbolEvents :
           LET key == MapKey(e.symbol)
               book == MapLookup(StoredBooks, key)
           IN  /\ event' = e
               /\ book_symbol' = key
               /\ books' = [k \in DOMAIN StoredBooks \ {key} |-> StoredBooks[k]]
               /\ orders_by_id' = book[1]
               /\ bid_levels' = book[2]
               /\ ask_levels' = book[3]
               /\ order_books' = order_books \cup {key}
    /\ total_events' = total_events + 1
    /\ kpc' = "switch"
    /\ UNCHANGED ret
    /\ UNCHANGED <<ctorVars, ringVars, prodVars, cbVars, consVars, histVars, rtVars>>
    /\ SymbolsFrame

\* the switch on event.event_type, on the book the reference is bound to
SymbolSwitch ==
    /\ kpc = "switch"
    /\ DispatchSwitch(event)
    /\ kpc' = "dispatch"
    /\ UNCHANGED <<event, order_books, total_events, books, book_symbol>>
    /\ SymbolsFrame

\* the map is empty, the first event has been popped
InitSymbols ==
    /\ InitRing(1)
    /\ InitThreads
    /\ InitRoundTripOff
    /\ orders_by_id = NoBook /\ bid_levels = NoBook /\ ask_levels = NoBook
    /\ ret = FALSE /\ added_order = <<>> /\ trail = NoTrail
    /\ shutdown_flag = FALSE
    /\ lpc = "off" /\ datagrams = 0 /\ lrecv = "none"
    /\ kpc = "dispatch" /\ event = NoEvent
    /\ order_books = {} /\ published = <<>> /\ total_events = 0
    /\ after_shutdown = NotShutDown
    /\ overwritten = <<>>
    /\ price_level = <<>> /\ books = <<>> /\ book_symbol = "" /\ stamps = <<>>

NextSymbols ==
    \/ SymbolLookup
    \/ SymbolSwitch

SpecSymbols == InitSymbols /\ [][NextSymbols]_vars

\* the book of a symbol in order_books; a key the map does not hold has the
\* book its first lookup will construct
BookOf(symbol) ==
    IF symbol = book_symbol THEN <<orders_by_id, bid_levels, ask_levels>>
    ELSE MapLookup(books, symbol)

\* C38: the books of the symbols are isolated.  Looking up the book of an
\* event's symbol and dispatching the event leave the book of every other
\* symbol unchanged, and an add is rejected exactly when its id is live in
\* the book of its own symbol: an id live in another symbol's book does not
\* reject it.
C38_BooksIsolatedPerSymbol ==
    [][/\ \A s \in BookSymbols \ {event'.symbol} : BookOf(s)' = BookOf(s)
       /\ (kpc = "switch" /\ event.event_type = "ADD_ORDER")
              => (ret' = (event.order_id \notin DOMAIN BookOf(event.symbol)[1]))]_vars

\* order 1 is live in the book of A and in the book of B, the add that put
\* it into the second of them has just been accepted
C38_Witness ==
    /\ kpc = "dispatch"
    /\ event.event_type = "ADD_ORDER" /\ event.order_id = 1 /\ ret
    /\ \A s \in BookSymbols : 1 \in DOMAIN BookOf(s)[1]
    /\ \E s \in BookSymbols \ {event.symbol} : BookOf(s)[2] # <<>>

====
